---------------------------- MODULE Spec2Model ----------------------------
(***************************************************************************)
(* A model of the atom_syndication codec: Feed::read_from (a recursive     *)
(* descent over the pull events of the XML reader), the text-content       *)
(* readers atom_text / atom_xhtml, the extension tree parser, and          *)
(* Feed::write_to.                                                         *)
(*                                                                         *)
(* Representation.  A Rust string or byte slice is a sequence of atoms.    *)
(* An atom is either one special character ("<", ">", "&", ";", ":", "/",  *)
(* "=", the double quote, " ") or a run of ordinary characters ("feed",    *)
(* "amp", "Title").  Option<T> is a sequence of length 0 (None) or 1       *)
(* (Some).  Vec<T> is a sequence.  BTreeMap<K, V> is a function whose      *)
(* domain is the key set.                                                  *)
(***************************************************************************)
EXTENDS Naturals, Sequences, FiniteSets, TLC

VARIABLES
    doc,      \* the events of the input the reader was created on
    reader,   \* the quick_xml Reader: position, pending End, config, open tags
    stack,    \* the call stack of the parser, innermost frame last
    result,   \* None while read_from runs, Some(Ok(feed) | Err(e)) after
    phase,    \* "parse": reading the input; "built": a feed made by the caller;
              \* "reread": reading what write_to wrote of a built feed;
              \* "reparse": reading what write_to wrote of a parsed feed
    written,  \* None, or Some(feed) the feed that write_to serialized
    output    \* the buffer write_to wrote into, as a sequence of items

vars == <<doc, reader, stack, result, phase, written, output>>

None == <<>>
Some(x) == <<x>>

Last(s) == s[Len(s)]
Front(s) == SubSeq(s, 1, Len(s) - 1)

RECURSIVE Concat(_)
Concat(ss) == IF ss = <<>> THEN <<>> ELSE Head(ss) \o Concat(Tail(ss))

(***************************************************************************)
(* Characters.                                                             *)
(***************************************************************************)
WhiteSpace == {" "}

\* str::trim
RECURSIVE TrimStart(_)
TrimStart(s) ==
    IF s # <<>> /\ Head(s) \in WhiteSpace THEN TrimStart(Tail(s)) ELSE s

RECURSIVE TrimEnd(_)
TrimEnd(s) ==
    IF s # <<>> /\ Last(s) \in WhiteSpace THEN TrimEnd(Front(s)) ELSE s

\* The text kept as it is.
Trim_nothing(s) == s

Trim(s) == TrimEnd(TrimStart(s))

\* quick_xml::escape::resolve_predefined_entity
PredefinedEntity ==
    [amp |-> "&", lt |-> "<", gt |-> ">", quot |-> "\"", apos |-> "'"]

resolve_predefined_entity(name) ==
    IF name \in DOMAIN PredefinedEntity THEN Some(PredefinedEntity[name]) ELSE None

\* BytesRef::resolve_char_ref: Ok(None) when the reference does not start with
\* '#', Ok(Some(ch)) for a valid code point, Err otherwise.
CharRef == [c \in {"#38", "#60", "#x26"} |-> IF c = "#60" THEN "<" ELSE "&"]
BadCharRefs == {"#zz"}
IsCharRef(name) == name \in DOMAIN CharRef \/ name \in BadCharRefs

\* quick_xml::escape::escape: the five special characters become references.
EscapeChar(c) ==
    CASE c = "&" -> <<"&", "amp", ";">>
      [] c = "<" -> <<"&", "lt", ";">>
      [] c = ">" -> <<"&", "gt", ";">>
      [] c = "\"" -> <<"&", "quot", ";">>
      [] c = "'" -> <<"&", "apos", ";">>
      [] OTHER -> <<c>>

RECURSIVE escape(_)
escape(s) == IF s = <<>> THEN <<>> ELSE EscapeChar(Head(s)) \o escape(Tail(s))

\* Index of the first occurrence of atom c in s, 0 when there is none.
RECURSIVE IndexFrom(_, _, _)
IndexFrom(s, c, i) ==
    IF i > Len(s) THEN 0 ELSE IF s[i] = c THEN i ELSE IndexFrom(s, c, i + 1)

IndexOf(s, c) == IndexFrom(s, c, 1)

\* quick_xml::escape::unescape as used for attribute values and (old API) text:
\* every "&name;" is resolved; an unknown name, an empty name ("&;") or an
\* unterminated "&" is an error.
RECURSIVE unescape(_)
unescape(s) ==
    IF s = <<>> THEN [ok |-> TRUE, val |-> <<>>]
    ELSE IF Head(s) # "&" THEN
        LET r == unescape(Tail(s))
        IN  IF r.ok THEN [ok |-> TRUE, val |-> <<Head(s)>> \o r.val] ELSE r
    ELSE
        LET semi == IndexOf(s, ";")
        IN  IF semi # 3 THEN [ok |-> FALSE, val |-> <<>>]
            ELSE LET name == s[2]
                     ch == IF name \in DOMAIN PredefinedEntity
                           THEN Some(PredefinedEntity[name])
                           ELSE IF name \in DOMAIN CharRef THEN Some(CharRef[name])
                           ELSE None
                     r == unescape(SubSeq(s, 4, Len(s)))
                 IN  IF ch = None THEN [ok |-> FALSE, val |-> <<>>]
                     ELSE IF r.ok THEN [ok |-> TRUE, val |-> ch \o r.val] ELSE r

(***************************************************************************)
(* Events of the reader.  Every event is a record [k, name, atts, s]:      *)
(* name is the tag name, atts the attributes in document order (each a     *)
(* [key, value] with the raw, still escaped value) and s the payload: the  *)
(* whole tag content for Start and Empty (what decode(&start) yields), the *)
(* characters for Text, CData and Comment, the reference name for          *)
(* GeneralRef.                                                             *)
(***************************************************************************)
Attr(key, value) == [key |-> key, value |-> value]

RECURSIVE AttsRaw(_)
AttsRaw(atts) ==
    IF atts = <<>> THEN <<>>
    ELSE <<" ">> \o Head(atts).key \o <<"=", "\"">> \o Head(atts).value \o <<"\"">>
         \o AttsRaw(Tail(atts))

Ev(k, name, atts, s) == [k |-> k, name |-> name, atts |-> atts, s |-> s]
Start(name, atts) == Ev("Start", name, atts, name \o AttsRaw(atts))
Empty(name, atts) == Ev("Empty", name, atts, name \o AttsRaw(atts))
End(name) == Ev("End", name, <<>>, name)
Text(s) == Ev("Text", <<>>, <<>>, s)
CData(s) == Ev("CData", <<>>, <<>>, s)
GeneralRef(n) == Ev("GeneralRef", <<>>, <<>>, <<n>>)
Comment(s) == Ev("Comment", <<>>, <<>>, s)
Decl == Ev("Decl", <<>>, <<>>, <<>>)
PI == Ev("PI", <<>>, <<>>, <<>>)
DocType == Ev("DocType", <<>>, <<>>, <<>>)
Eof == Ev("Eof", <<>>, <<>>, <<>>)
\* read_event returning Err(quick_xml::Error): ill-formed input.
SyntaxErr == Ev("Err", <<>>, <<>>, <<>>)

(***************************************************************************)
(* The reader.  pos is the index of the next event of doc; pend holds the  *)
(* name of an expanded self-closing tag whose End is still to be           *)
(* delivered; expand is config.expand_empty_elements; open is the stack of *)
(* open tag names the reader checks End names against.                     *)
(***************************************************************************)
NewReader == [pos |-> 1, pend |-> None, expand |-> FALSE, open |-> <<>>]

\* Reader::read_event / read_event_into: the next event and the reader after it.
ReadEvent(d, r) ==
    IF r.pend # None THEN
        [ev |-> End(r.pend[1]), rd |-> [r EXCEPT !.pend = None]]
    ELSE IF r.pos > Len(d) THEN [ev |-> Eof, rd |-> r]
    ELSE
        LET e == d[r.pos]
            r1 == [r EXCEPT !.pos = r.pos + 1]
        IN  CASE e.k = "Start" ->
                    [ev |-> e, rd |-> [r1 EXCEPT !.open = Append(r.open, e.name)]]
              [] e.k = "End" ->
                    IF r.open # <<>> /\ Last(r.open) = e.name
                    THEN [ev |-> e, rd |-> [r1 EXCEPT !.open = Front(r.open)]]
                    ELSE [ev |-> SyntaxErr, rd |-> r1]
              [] e.k = "Empty" ->
                    IF r.expand
                    THEN [ev |-> [e EXCEPT !.k = "Start"],
                          rd |-> [r1 EXCEPT !.pend = Some(e.name)]]
                    ELSE [ev |-> e, rd |-> r1]
              [] OTHER -> [ev |-> e, rd |-> r1]

\* read_to_end stopping at the first End event with the name, whatever the
\* nesting.
RECURSIVE ReadToEndLoop_first_end(_, _, _, _)
ReadToEndLoop_first_end(d, r, end, depth) ==
    LET n == ReadEvent(d, r)
    IN  CASE n.ev.k = "End" /\ n.ev.name = end -> [ok |-> TRUE, rd |-> n.rd]
          [] n.ev.k = "Err" -> [ok |-> FALSE, rd |-> n.rd]
          [] n.ev.k = "Eof" -> [ok |-> FALSE, rd |-> n.rd]
          [] OTHER -> ReadToEndLoop_first_end(d, n.rd, end, depth)

\* Reader::read_to_end(end): skip to the End matching the element just opened.
RECURSIVE ReadToEndLoop(_, _, _, _)
ReadToEndLoop(d, r, end, depth) ==
    LET n == ReadEvent(d, r)
    IN  CASE n.ev.k = "End" /\ n.ev.name = end ->
                IF depth = 0 THEN [ok |-> TRUE, rd |-> n.rd]
                ELSE ReadToEndLoop(d, n.rd, end, depth - 1)
          [] n.ev.k = "Start" /\ n.ev.name = end ->
                ReadToEndLoop(d, n.rd, end, depth + 1)
          [] n.ev.k = "Err" -> [ok |-> FALSE, rd |-> n.rd]
          [] n.ev.k = "Eof" -> [ok |-> FALSE, rd |-> n.rd]
          [] OTHER -> ReadToEndLoop(d, n.rd, end, depth)

read_to_end(d, r, end) == ReadToEndLoop(d, r, end, 0)

(***************************************************************************)
(* Errors (error.rs) and results.                                          *)
(***************************************************************************)
Error(kind, info) == [kind |-> kind, info |-> info]
ErrXml == Error("Xml", <<>>)
ErrEof == Error("Eof", <<>>)
ErrInvalidStartTag == Error("InvalidStartTag", <<>>)
ErrWrongDatetime(text) == Error("WrongDatetime", text)
ErrWrongAttribute(value) == Error("WrongAttribute", <<"type">> \o value)

Ok(v) == [ok |-> TRUE, val |-> v]
Err(e) == [ok |-> FALSE, val |-> e]

(***************************************************************************)
(* The feed model: records, defaults and maps.                             *)
(***************************************************************************)
EmptyMap == <<>>

\* BTreeMap::insert
MapInsert(m, k, v) == [x \in (DOMAIN m) \cup {k} |-> IF x = k THEN v ELSE m[x]]

\* The list at the key replaced by a list of the new node alone.
MapPush_replace(m, k, v) == MapInsert(m, k, <<v>>)

\* The "insert an empty Vec unless the key is there, then push" idiom of
\* parse_extension and parse_extension_element.
MapPush(m, k, v) ==
    MapInsert(m, k, Append(IF k \in DOMAIN m THEN m[k] ELSE <<>>, v))

\* util.rs default_fixed_datetime: 1970-01-01T00:00:00Z, held as its
\* to_rfc3339 text.
default_fixed_datetime == "1970-01-01T00:00:00+00:00"

\* diligent_date_parser::parse_date on the texts the model uses: the
\* timestamp (as its to_rfc3339 text) or None.
DateTable ==
    [t \in {<<"1970-01-01T00:00:00Z">>, <<"1970-01-01T00:00:00+00:00">>,
            <<"2017-06-03T15:15:44-05:00">>} |->
        IF t = <<"2017-06-03T15:15:44-05:00">> THEN "2017-06-03T15:15:44-05:00"
        ELSE "1970-01-01T00:00:00+00:00"]

parse_date(text) == IF text \in DOMAIN DateTable THEN Some(DateTable[text]) ELSE None

TextDefault == [value |-> <<>>, base |-> None, lang |-> None, type |-> "Text"]

PersonDefault == [name |-> <<>>, email |-> None, uri |-> None]

CategoryDefault == [term |-> <<>>, scheme |-> None, label |-> None]

GeneratorDefault == [value |-> <<>>, uri |-> None, version |-> None]

\* Link::default without the "alternate" relation.
LinkDefault_no_rel ==
    [href |-> <<>>, rel |-> <<>>, hreflang |-> None, mime_type |-> None,
     title |-> None, length |-> None]

LinkDefault ==
    [href |-> <<>>, rel |-> <<"alternate">>, hreflang |-> None, mime_type |-> None,
     title |-> None, length |-> None]

ContentDefault ==
    [base |-> None, lang |-> None, value |-> None, src |-> None, content_type |-> None]

ExtensionDefault ==
    [name |-> <<>>, value |-> None, attrs |-> EmptyMap, children |-> EmptyMap]

SourceDefault ==
    [title |-> TextDefault, id |-> <<>>, updated |-> default_fixed_datetime,
     authors |-> <<>>, categories |-> <<>>, contributors |-> <<>>,
     generator |-> None, icon |-> None, links |-> <<>>, logo |-> None,
     rights |-> None, subtitle |-> None]

EntryDefault ==
    [title |-> TextDefault, id |-> <<>>, updated |-> default_fixed_datetime,
     authors |-> <<>>, categories |-> <<>>, contributors |-> <<>>, links |-> <<>>,
     published |-> None, rights |-> None, source |-> None, summary |-> None,
     content |-> None, extensions |-> EmptyMap]

FeedDefault ==
    [title |-> TextDefault, id |-> <<>>, updated |-> default_fixed_datetime,
     authors |-> <<>>, categories |-> <<>>, contributors |-> <<>>,
     generator |-> None, icon |-> None, links |-> <<>>, logo |-> None,
     rights |-> None, subtitle |-> None, entries |-> <<>>,
     extensions |-> EmptyMap, namespaces |-> EmptyMap, base |-> None, lang |-> None]

(***************************************************************************)
(* Frames and commands.  A frame is one active call: fn the function, obj  *)
(* the value it is building, slot where the caller puts the returned       *)
(* value, depth and buf the locals of the text and extension loops.  One   *)
(* loop iteration yields a command: go on, put a finished child into the   *)
(* own object, call a sub-parser, return, or fail.                         *)
(***************************************************************************)
Slot(field, mode, conv) ==
    [field |-> field, mode |-> mode, conv |-> conv, ns |-> <<>>, name |-> <<>>]
ExtSlot(mode, ns, name) ==
    [field |-> "", mode |-> mode, conv |-> "", ns |-> ns, name |-> name]
NoSlot == Slot("", "", "")

\* at is history only: the reader position at the call, i.e. the index of the
\* first event after the element's start tag.
Frame(fn, obj, slot, at) ==
    [fn |-> fn, obj |-> obj, slot |-> slot, depth |-> 0, buf |-> <<>>, at |-> at]

Cmd(c, rd, frame, slot, val) ==
    [c |-> c, rd |-> rd, frame |-> frame, slot |-> slot, val |-> val]
ContCmd(rd) == Cmd("cont", rd, <<>>, NoSlot, <<>>)
LoopCmd(rd, frame) == Cmd("loop", rd, frame, NoSlot, <<>>)
PutCmd(rd, slot, val) == Cmd("put", rd, <<>>, slot, val)
CallCmd(rd, frame) == Cmd("call", rd, frame, NoSlot, <<>>)
BreakCmd(rd, val) == Cmd("break", rd, <<>>, NoSlot, val)
ErrCmd(rd, e) == Cmd("err", rd, <<>>, NoSlot, e)

\* The caller's assignment of a returned value: field = v, field = Some(v),
\* field.push(v), or the insertion of an extension node.
Deliver(frame, slot, v) ==
    CASE slot.mode = "set" -> [frame EXCEPT !.obj[slot.field] = v]
      [] slot.mode = "some" -> [frame EXCEPT !.obj[slot.field] = Some(v)]
      [] slot.mode = "push" -> [frame EXCEPT !.obj[slot.field] = Append(@, v)]
      [] slot.mode = "ext_top" ->
            [frame EXCEPT !.obj.extensions =
                MapInsert(@, slot.ns,
                    MapPush(IF slot.ns \in DOMAIN @ THEN @[slot.ns] ELSE EmptyMap,
                            slot.name, v))]
      [] slot.mode = "ext_child" ->
            [frame EXCEPT !.obj.children = MapPush(@, slot.name, v)]

(***************************************************************************)
(* util.rs: the text-content readers.                                      *)
(***************************************************************************)
\* non_empty with the content trimmed before the emptiness test.
non_empty_trimmed(string) == IF Trim(string) # <<>> THEN Some(Trim(string)) ELSE None

non_empty(string) == IF string # <<>> THEN Some(string) ELSE None

\* atom_text with the GeneralRef arm of atom_xhtml: references are not resolved.
atom_text_unresolved(ev, rd, f) ==
    CASE ev.k = "Start" ->
            LoopCmd(rd, [f EXCEPT !.depth = f.depth + 1,
                                  !.buf = f.buf \o <<"<">> \o ev.s \o <<">">>])
      [] ev.k = "End" ->
            IF f.depth <= 0 THEN BreakCmd(rd, f.buf)
            ELSE LoopCmd(rd, [f EXCEPT !.depth = f.depth - 1,
                                       !.buf = f.buf \o <<"<", "/">> \o ev.name \o <<">">>])
      [] ev.k = "Empty" ->
            LoopCmd(rd, [f EXCEPT !.buf = f.buf \o <<"<">> \o ev.s \o <<"/", ">">>])
      [] ev.k = "CData" -> LoopCmd(rd, [f EXCEPT !.buf = f.buf \o ev.s])
      [] ev.k = "Text" -> LoopCmd(rd, [f EXCEPT !.buf = f.buf \o ev.s])
      [] ev.k = "GeneralRef" ->
            LoopCmd(rd, [f EXCEPT !.buf = f.buf \o <<"&">> \o ev.s \o <<";">>])
      [] ev.k = "Comment" ->
            LoopCmd(rd, [f EXCEPT !.buf = f.buf \o <<"<!--">> \o ev.s \o <<"-->">>])
      [] ev.k \in {"Decl", "PI", "DocType"} -> LoopCmd(rd, f)
      [] ev.k = "Eof" -> ErrCmd(rd, ErrEof)
      [] ev.k = "Err" -> ErrCmd(rd, ErrXml)

\* One iteration of the loop of atom_text on event ev.
atom_text_iter(ev, rd, f) ==
    CASE ev.k = "Start" ->
            LoopCmd(rd, [f EXCEPT !.depth = f.depth + 1,
                                  !.buf = f.buf \o <<"<">> \o ev.s \o <<">">>])
      [] ev.k = "End" ->
            IF f.depth <= 0 THEN BreakCmd(rd, f.buf)
            ELSE LoopCmd(rd, [f EXCEPT !.depth = f.depth - 1,
                                       !.buf = f.buf \o <<"<", "/">> \o ev.name \o <<">">>])
      [] ev.k = "Empty" ->
            LoopCmd(rd, [f EXCEPT !.buf = f.buf \o <<"<">> \o ev.s \o <<"/", ">">>])
      [] ev.k = "CData" -> LoopCmd(rd, [f EXCEPT !.buf = f.buf \o ev.s])
      [] ev.k = "Text" -> LoopCmd(rd, [f EXCEPT !.buf = f.buf \o ev.s])
      [] ev.k = "GeneralRef" ->
            LET entity == ev.s[1]
                resolved == resolve_predefined_entity(entity)
            IN  IF resolved # None
                THEN LoopCmd(rd, [f EXCEPT !.buf = f.buf \o resolved])
                ELSE IF entity \in BadCharRefs THEN ErrCmd(rd, ErrXml)
                ELSE IF entity \in DOMAIN CharRef
                THEN LoopCmd(rd, [f EXCEPT !.buf = f.buf \o <<CharRef[entity]>>])
                ELSE LoopCmd(rd, [f EXCEPT !.buf = f.buf \o <<"&">> \o ev.s \o <<";">>])
      [] ev.k = "Comment" ->
            LoopCmd(rd, [f EXCEPT !.buf = f.buf \o <<"<!--">> \o ev.s \o <<"-->">>])
      [] ev.k \in {"Decl", "PI", "DocType"} -> LoopCmd(rd, f)
      [] ev.k = "Eof" -> ErrCmd(rd, ErrEof)
      [] ev.k = "Err" -> ErrCmd(rd, ErrXml)

\* atom_xhtml without the depth test: the loop ends at the first End event.
atom_xhtml_first_end(ev, rd, f) ==
    CASE ev.k = "Start" ->
            LoopCmd(rd, [f EXCEPT !.depth = f.depth + 1,
                                  !.buf = f.buf \o <<"<">> \o ev.s \o <<">">>])
      [] ev.k = "End" -> BreakCmd(rd, f.buf)
      [] ev.k = "Empty" ->
            LoopCmd(rd, [f EXCEPT !.buf = f.buf \o <<"<">> \o ev.s \o <<"/", ">">>])
      [] ev.k = "CData" -> LoopCmd(rd, [f EXCEPT !.buf = f.buf \o escape(ev.s)])
      [] ev.k = "Text" -> LoopCmd(rd, [f EXCEPT !.buf = f.buf \o escape(ev.s)])
      [] ev.k = "GeneralRef" ->
            LoopCmd(rd, [f EXCEPT !.buf = f.buf \o <<"&">> \o ev.s \o <<";">>])
      [] ev.k = "Comment" ->
            LoopCmd(rd, [f EXCEPT !.buf = f.buf \o <<"<!--">> \o ev.s \o <<"-->">>])
      [] ev.k \in {"Decl", "PI", "DocType"} -> LoopCmd(rd, f)
      [] ev.k = "Eof" -> ErrCmd(rd, ErrEof)
      [] ev.k = "Err" -> ErrCmd(rd, ErrXml)

\* atom_xhtml with the Text and CData arms of atom_text: no re-escaping.
atom_xhtml_unescaped(ev, rd, f) ==
    CASE ev.k = "Start" ->
            LoopCmd(rd, [f EXCEPT !.depth = f.depth + 1,
                                  !.buf = f.buf \o <<"<">> \o ev.s \o <<">">>])
      [] ev.k = "End" ->
            IF f.depth <= 0 THEN BreakCmd(rd, f.buf)
            ELSE LoopCmd(rd, [f EXCEPT !.depth = f.depth - 1,
                                       !.buf = f.buf \o <<"<", "/">> \o ev.name \o <<">">>])
      [] ev.k = "Empty" ->
            LoopCmd(rd, [f EXCEPT !.buf = f.buf \o <<"<">> \o ev.s \o <<"/", ">">>])
      [] ev.k = "CData" -> LoopCmd(rd, [f EXCEPT !.buf = f.buf \o ev.s])
      [] ev.k = "Text" -> LoopCmd(rd, [f EXCEPT !.buf = f.buf \o ev.s])
      [] ev.k = "GeneralRef" ->
            LoopCmd(rd, [f EXCEPT !.buf = f.buf \o <<"&">> \o ev.s \o <<";">>])
      [] ev.k = "Comment" ->
            LoopCmd(rd, [f EXCEPT !.buf = f.buf \o <<"<!--">> \o ev.s \o <<"-->">>])
      [] ev.k \in {"Decl", "PI", "DocType"} -> LoopCmd(rd, f)
      [] ev.k = "Eof" -> ErrCmd(rd, ErrEof)
      [] ev.k = "Err" -> ErrCmd(rd, ErrXml)

\* One iteration of the loop of atom_xhtml on event ev.
atom_xhtml_iter(ev, rd, f) ==
    CASE ev.k = "Start" ->
            LoopCmd(rd, [f EXCEPT !.depth = f.depth + 1,
                                  !.buf = f.buf \o <<"<">> \o ev.s \o <<">">>])
      [] ev.k = "End" ->
            IF f.depth <= 0 THEN BreakCmd(rd, f.buf)
            ELSE LoopCmd(rd, [f EXCEPT !.depth = f.depth - 1,
                                       !.buf = f.buf \o <<"<", "/">> \o ev.name \o <<">">>])
      [] ev.k = "Empty" ->
            LoopCmd(rd, [f EXCEPT !.buf = f.buf \o <<"<">> \o ev.s \o <<"/", ">">>])
      [] ev.k = "CData" -> LoopCmd(rd, [f EXCEPT !.buf = f.buf \o escape(ev.s)])
      [] ev.k = "Text" -> LoopCmd(rd, [f EXCEPT !.buf = f.buf \o escape(ev.s)])
      [] ev.k = "GeneralRef" ->
            LoopCmd(rd, [f EXCEPT !.buf = f.buf \o <<"&">> \o ev.s \o <<";">>])
      [] ev.k = "Comment" ->
            LoopCmd(rd, [f EXCEPT !.buf = f.buf \o <<"<!--">> \o ev.s \o <<"-->">>])
      [] ev.k \in {"Decl", "PI", "DocType"} -> LoopCmd(rd, f)
      [] ev.k = "Eof" -> ErrCmd(rd, ErrEof)
      [] ev.k = "Err" -> ErrCmd(rd, ErrXml)

\* atom_datetime taking a text that is not a date for an absent one.
atom_datetime_lenient(content) ==
    IF content # None THEN Ok(parse_date(content[1])) ELSE Ok(None)

\* atom_datetime on the Option<String> atom_text returned.
atom_datetime(content) ==
    IF content # None
    THEN LET d == parse_date(content[1])
         IN  IF d = None THEN Err(ErrWrongDatetime(content[1])) ELSE Ok(d)
    ELSE Ok(None)

unwrap_or_default(opt) == IF opt = None THEN <<>> ELSE opt[1]

\* What the caller of atom_text / atom_xhtml makes of the returned content.
TextReturn(f, content) ==
    CASE f.slot.conv = "unwrap_or_default" -> Ok(unwrap_or_default(content))
      [] f.slot.conv = "option" -> Ok(content)
      [] f.slot.conv = "updated" ->
            LET d == atom_datetime(content)
            IN  IF ~d.ok THEN d
                ELSE Ok(IF d.val = None THEN default_fixed_datetime ELSE d.val[1])
      [] f.slot.conv = "published" -> atom_datetime(content)
      [] f.slot.conv \in {"text", "generator"} ->
            Ok([f.obj EXCEPT !.value = unwrap_or_default(content)])
      [] f.slot.conv = "content" -> Ok([f.obj EXCEPT !.value = content])

(***************************************************************************)
(* Attribute loops.  Each walks the attributes in document order and stops *)
(* at the first failure; only the arms that call unescape can fail.        *)
(***************************************************************************)
XmlBase == <<"xml", ":", "base">>
XmlLang == <<"xml", ":", "lang">>

\* FromStr for TextType taking every unknown value for the default type.
TextType_from_str_lenient(value) ==
    CASE value = <<"text">> -> Ok("Text")
      [] value = <<"html">> -> Ok("Html")
      [] value = <<"xhtml">> -> Ok("Xhtml")
      [] OTHER -> Ok("Text")

\* impl FromStr for TextType
TextType_from_str(value) ==
    CASE value = <<"text">> -> Ok("Text")
      [] value = <<"html">> -> Ok("Html")
      [] value = <<"xhtml">> -> Ok("Xhtml")
      [] OTHER -> Err(ErrWrongAttribute(value))

\* Text::from_xml, the attribute loop.
RECURSIVE Text_atts(_, _)
Text_atts(atts, text) ==
    IF atts = <<>> THEN Ok(text)
    ELSE LET att == Head(atts)
             v == unescape(att.value)
         IN  CASE att.key = XmlBase ->
                    IF v.ok THEN Text_atts(Tail(atts), [text EXCEPT !.base = Some(v.val)])
                    ELSE Err(ErrXml)
               [] att.key = XmlLang ->
                    IF v.ok THEN Text_atts(Tail(atts), [text EXCEPT !.lang = Some(v.val)])
                    ELSE Err(ErrXml)
               [] att.key = <<"type">> ->
                    IF ~v.ok THEN Err(ErrXml)
                    ELSE LET t == TextType_from_str(v.val)
                         IN  IF t.ok
                             THEN Text_atts(Tail(atts), [text EXCEPT !.type = t.val])
                             ELSE t
               [] OTHER -> Text_atts(Tail(atts), text)

\* Category::from_xml, the attribute loop.
RECURSIVE Category_atts(_, _)
Category_atts(atts, category) ==
    IF atts = <<>> THEN Ok(category)
    ELSE LET att == Head(atts)
             v == unescape(att.value)
         IN  CASE att.key = <<"term">> ->
                    IF v.ok THEN Category_atts(Tail(atts), [category EXCEPT !.term = v.val])
                    ELSE Err(ErrXml)
               [] att.key = <<"scheme">> ->
                    IF v.ok
                    THEN Category_atts(Tail(atts), [category EXCEPT !.scheme = Some(v.val)])
                    ELSE Err(ErrXml)
               [] att.key = <<"label">> ->
                    IF v.ok
                    THEN Category_atts(Tail(atts), [category EXCEPT !.label = Some(v.val)])
                    ELSE Err(ErrXml)
               [] OTHER -> Category_atts(Tail(atts), category)

\* Generator::from_xml, the attribute loop.
RECURSIVE Generator_atts(_, _)
Generator_atts(atts, generator) ==
    IF atts = <<>> THEN Ok(generator)
    ELSE LET att == Head(atts)
             v == unescape(att.value)
         IN  CASE att.key = <<"uri">> ->
                    IF v.ok
                    THEN Generator_atts(Tail(atts), [generator EXCEPT !.uri = Some(v.val)])
                    ELSE Err(ErrXml)
               [] att.key = <<"version">> ->
                    IF v.ok
                    THEN Generator_atts(Tail(atts),
                                        [generator EXCEPT !.version = Some(v.val)])
                    ELSE Err(ErrXml)
               [] OTHER -> Generator_atts(Tail(atts), generator)

\* Link::from_xml: the attribute loop is the whole function.
RECURSIVE Link_from_xml(_, _)
Link_from_xml(atts, link) ==
    IF atts = <<>> THEN Ok(link)
    ELSE LET att == Head(atts)
             v == unescape(att.value)
             field == CASE att.key = <<"href">> -> "href"
                        [] att.key = <<"rel">> -> "rel"
                        [] att.key = <<"hreflang">> -> "hreflang"
                        [] att.key = <<"type">> -> "mime_type"
                        [] att.key = <<"title">> -> "title"
                        [] att.key = <<"length">> -> "length"
                        [] OTHER -> ""
         IN  IF field = "" THEN Link_from_xml(Tail(atts), link)
             ELSE IF ~v.ok THEN Err(ErrXml)
             ELSE Link_from_xml(Tail(atts),
                      [link EXCEPT ![field] =
                          IF field \in {"href", "rel"} THEN v.val ELSE Some(v.val)])

\* Content::from_xml, the attribute loop.
RECURSIVE Content_atts(_, _)
Content_atts(atts, content) ==
    IF atts = <<>> THEN Ok(content)
    ELSE LET att == Head(atts)
             v == unescape(att.value)
             field == CASE att.key = XmlBase -> "base"
                        [] att.key = XmlLang -> "lang"
                        [] att.key = <<"type">> -> "content_type"
                        [] att.key = <<"src">> -> "src"
                        [] OTHER -> ""
         IN  IF field = "" THEN Content_atts(Tail(atts), content)
             ELSE IF ~v.ok THEN Err(ErrXml)
             ELSE Content_atts(Tail(atts), [content EXCEPT ![field] = Some(v.val)])

\* The attribute loop of parse_extension_element keeping the raw value of an
\* attribute that does not unescape.
RECURSIVE Extension_atts_raw(_, _)
Extension_atts_raw(atts, extension) ==
    IF atts = <<>> THEN Ok(extension)
    ELSE LET att == Head(atts)
             v == unescape(att.value)
         IN  Extension_atts_raw(Tail(atts),
                 [extension EXCEPT !.attrs =
                     MapInsert(@, att.key, IF v.ok THEN v.val ELSE att.value)])

\* parse_extension_element, the attribute loop: every attribute is unescaped.
RECURSIVE Extension_atts(_, _)
Extension_atts(atts, extension) ==
    IF atts = <<>> THEN Ok(extension)
    ELSE LET att == Head(atts)
             v == unescape(att.value)
         IN  IF ~v.ok THEN Err(ErrXml)
             ELSE Extension_atts(Tail(atts),
                      [extension EXCEPT !.attrs = MapInsert(@, att.key, v.val)])

\* The attribute loop of Feed::from_xml without the arm for xmlns:dc.
RECURSIVE Feed_atts_with_dc(_, _)
Feed_atts_with_dc(atts, feed) ==
    IF atts = <<>> THEN Ok(feed)
    ELSE LET att == Head(atts)
             v == unescape(att.value)
         IN  CASE att.key = XmlBase ->
                    IF v.ok
                    THEN Feed_atts_with_dc(Tail(atts), [feed EXCEPT !.base = Some(v.val)])
                    ELSE Err(ErrXml)
               [] att.key = XmlLang ->
                    IF v.ok
                    THEN Feed_atts_with_dc(Tail(atts), [feed EXCEPT !.lang = Some(v.val)])
                    ELSE Err(ErrXml)
               [] Len(att.key) >= 2 /\ SubSeq(att.key, 1, 2) = <<"xmlns", ":">> ->
                    IF v.ok
                    THEN Feed_atts_with_dc(Tail(atts),
                             [feed EXCEPT !.namespaces =
                                 MapInsert(@, SubSeq(att.key, 3, Len(att.key)), v.val)])
                    ELSE Err(ErrXml)
               [] OTHER -> Feed_atts_with_dc(Tail(atts), feed)

\* Feed::from_xml, the attribute loop: xml:base, xml:lang and xmlns:<prefix>
\* other than xmlns:dc are unescaped, everything else is passed over.
RECURSIVE Feed_atts(_, _)
Feed_atts(atts, feed) ==
    IF atts = <<>> THEN Ok(feed)
    ELSE LET att == Head(atts)
             v == unescape(att.value)
         IN  CASE att.key = XmlBase ->
                    IF v.ok THEN Feed_atts(Tail(atts), [feed EXCEPT !.base = Some(v.val)])
                    ELSE Err(ErrXml)
               [] att.key = XmlLang ->
                    IF v.ok THEN Feed_atts(Tail(atts), [feed EXCEPT !.lang = Some(v.val)])
                    ELSE Err(ErrXml)
               [] att.key = <<"xmlns", ":", "dc">> -> Feed_atts(Tail(atts), feed)
               [] Len(att.key) >= 2 /\ SubSeq(att.key, 1, 2) = <<"xmlns", ":">> ->
                    IF v.ok
                    THEN Feed_atts(Tail(atts),
                             [feed EXCEPT !.namespaces =
                                 MapInsert(@, SubSeq(att.key, 3, Len(att.key)), v.val)])
                    ELSE Err(ErrXml)
               [] OTHER -> Feed_atts(Tail(atts), feed)

(***************************************************************************)
(* The calls an element loop makes on a Start event.                       *)
(***************************************************************************)
\* atom_text(reader): the call clears expand_empty_elements and enters the loop.
Call_atom_text(rd, obj, slot) ==
    CallCmd([rd EXCEPT !.expand = FALSE], Frame("atom_text", obj, slot, rd.pos))

Call_atom_xhtml(rd, obj, slot) ==
    CallCmd([rd EXCEPT !.expand = FALSE], Frame("atom_xhtml", obj, slot, rd.pos))

\* Text::from_xml reading every body whose type is not Text with atom_xhtml.
Text_from_xml_markup(rd, atts, field, mode) ==
    LET a == Text_atts(atts, TextDefault)
    IN  IF ~a.ok THEN ErrCmd(rd, a.val)
        ELSE IF a.val.type # "Text"
        THEN Call_atom_xhtml(rd, a.val, Slot(field, mode, "text"))
        ELSE Call_atom_text(rd, a.val, Slot(field, mode, "text"))

\* Text::from_xml(reader, atts)
Text_from_xml(rd, atts, field, mode) ==
    LET a == Text_atts(atts, TextDefault)
    IN  IF ~a.ok THEN ErrCmd(rd, a.val)
        ELSE IF a.val.type = "Xhtml"
        THEN Call_atom_xhtml(rd, a.val, Slot(field, mode, "text"))
        ELSE Call_atom_text(rd, a.val, Slot(field, mode, "text"))

\* Generator::from_xml(reader, atts)
Generator_from_xml(rd, atts) ==
    LET a == Generator_atts(atts, GeneratorDefault)
    IN  IF ~a.ok THEN ErrCmd(rd, a.val)
        ELSE Call_atom_text(rd, a.val, Slot("generator", "some", "generator"))

\* Content::from_xml reading the body in XHTML mode whenever a type is given.
Content_from_xml_typed(rd, atts) ==
    LET a == Content_atts(atts, ContentDefault)
    IN  IF ~a.ok THEN ErrCmd(rd, a.val)
        ELSE IF a.val.content_type # None
        THEN Call_atom_xhtml(rd, a.val, Slot("content", "some", "content"))
        ELSE Call_atom_text(rd, a.val, Slot("content", "some", "content"))

\* Content::from_xml(reader, atts)
Content_from_xml(rd, atts) ==
    LET a == Content_atts(atts, ContentDefault)
    IN  IF ~a.ok THEN ErrCmd(rd, a.val)
        ELSE IF a.val.content_type = Some(<<"xhtml">>)
        THEN Call_atom_xhtml(rd, a.val, Slot("content", "some", "content"))
        ELSE Call_atom_text(rd, a.val, Slot("content", "some", "content"))

\* Category::from_xml(reader, atts): the attributes, then read_to_end.
Category_from_xml(d, rd, atts) ==
    LET a == Category_atts(atts, CategoryDefault)
    IN  IF ~a.ok THEN ErrCmd(rd, a.val)
        ELSE LET e == read_to_end(d, rd, <<"category">>)
             IN  IF e.ok THEN PutCmd(e.rd, Slot("categories", "push", ""), a.val)
                 ELSE ErrCmd(e.rd, ErrXml)

\* links.push(Link::from_xml(..)): no event is read.
Push_link(rd, atts) ==
    LET a == Link_from_xml(atts, LinkDefault)
    IN  IF ~a.ok THEN ErrCmd(rd, a.val)
        ELSE PutCmd(rd, Slot("links", "push", ""), a.val)

\* extension_name accepting an empty prefix.
extension_name_empty_prefix(element_name) ==
    LET i == IndexOf(element_name, ":")
    IN  IF i = 0 THEN None
        ELSE Some(<<SubSeq(element_name, 1, i - 1),
                    SubSeq(element_name, i + 1, Len(element_name))>>)

\* extension/util.rs extension_name: split at the first ':'; None when there
\* is no ':' or the prefix is empty.
extension_name(element_name) ==
    LET i == IndexOf(element_name, ":")
    IN  IF i <= 1 THEN None
        ELSE Some(<<SubSeq(element_name, 1, i - 1),
                    SubSeq(element_name, i + 1, Len(element_name))>>)

\* local_name keeping the prefix.
local_name_qualified(element_name) == element_name

\* BytesStart::local_name: the name after its first ':'.
local_name(element_name) ==
    LET i == IndexOf(element_name, ":")
    IN  IF i = 0 THEN element_name ELSE SubSeq(element_name, i + 1, Len(element_name))

\* parse_extension(reader, atts, ns, name, extensions), up to the loop of
\* parse_extension_element.
parse_extension(rd, atts, ns, name) ==
    LET a == Extension_atts(atts, ExtensionDefault)
    IN  IF ~a.ok THEN ErrCmd(rd, a.val)
        ELSE CallCmd(rd, Frame("parse_extension_element", a.val,
                               ExtSlot("ext_top", ns, name), rd.pos))

\* The fallback arm of the feed and entry loops.
Unknown_element(d, rd, ev) ==
    LET x == extension_name(ev.name)
    IN  IF x # None THEN parse_extension(rd, ev.atts, x[1][1], x[1][2])
        ELSE LET e == read_to_end(d, rd, ev.name)
             IN  IF e.ok THEN ContCmd(e.rd) ELSE ErrCmd(e.rd, ErrXml)

(***************************************************************************)
(* The element loops, one iteration each.                                  *)
(***************************************************************************)
N(name) == <<name>>
FeedTag == N("feed")

\* Feed::from_xml, the loop.
Feed_iter(d, ev, rd, f) ==
    CASE ev.k = "Start" ->
            CASE ev.name = N("title") -> Text_from_xml(rd, ev.atts, "title", "set")
              [] ev.name = N("id") ->
                    Call_atom_text(rd, <<>>, Slot("id", "set", "unwrap_or_default"))
              [] ev.name = N("updated") ->
                    Call_atom_text(rd, <<>>, Slot("updated", "set", "updated"))
              [] ev.name = N("author") ->
                    CallCmd(rd, Frame("Person", PersonDefault, Slot("authors", "push", ""),
                                      rd.pos))
              [] ev.name = N("category") -> Category_from_xml(d, rd, ev.atts)
              [] ev.name = N("contributor") ->
                    CallCmd(rd, Frame("Person", PersonDefault,
                                      Slot("contributors", "push", ""), rd.pos))
              [] ev.name = N("generator") -> Generator_from_xml(rd, ev.atts)
              [] ev.name = N("icon") ->
                    Call_atom_text(rd, <<>>, Slot("icon", "set", "option"))
              [] ev.name = N("link") -> Push_link(rd, ev.atts)
              [] ev.name = N("logo") ->
                    Call_atom_text(rd, <<>>, Slot("logo", "set", "option"))
              [] ev.name = N("rights") -> Text_from_xml(rd, ev.atts, "rights", "some")
              [] ev.name = N("subtitle") -> Text_from_xml(rd, ev.atts, "subtitle", "some")
              [] ev.name = N("entry") ->
                    CallCmd(rd, Frame("Entry", EntryDefault, Slot("entries", "push", ""),
                                      rd.pos))
              [] OTHER -> Unknown_element(d, rd, ev)
      [] ev.k = "End" -> BreakCmd(rd, f.obj)
      [] ev.k = "Eof" -> ErrCmd(rd, ErrEof)
      [] ev.k = "Err" -> ErrCmd(rd, ErrXml)
      [] OTHER -> ContCmd(rd)

\* Entry::from_xml, the loop.
Entry_iter(d, ev, rd, f) ==
    CASE ev.k = "Start" ->
            CASE ev.name = N("id") ->
                    Call_atom_text(rd, <<>>, Slot("id", "set", "unwrap_or_default"))
              [] ev.name = N("title") -> Text_from_xml(rd, ev.atts, "title", "set")
              [] ev.name = N("updated") ->
                    Call_atom_text(rd, <<>>, Slot("updated", "set", "updated"))
              [] ev.name = N("author") ->
                    CallCmd(rd, Frame("Person", PersonDefault, Slot("authors", "push", ""),
                                      rd.pos))
              [] ev.name = N("category") -> Category_from_xml(d, rd, ev.atts)
              [] ev.name = N("contributor") ->
                    CallCmd(rd, Frame("Person", PersonDefault,
                                      Slot("contributors", "push", ""), rd.pos))
              [] ev.name = N("link") -> Push_link(rd, ev.atts)
              [] ev.name = N("published") ->
                    Call_atom_text(rd, <<>>, Slot("published", "set", "published"))
              [] ev.name = N("rights") -> Text_from_xml(rd, ev.atts, "rights", "some")
              [] ev.name = N("source") ->
                    CallCmd(rd, Frame("Source", SourceDefault, Slot("source", "some", ""),
                                      rd.pos))
              [] ev.name = N("summary") -> Text_from_xml(rd, ev.atts, "summary", "some")
              [] ev.name = N("content") -> Content_from_xml(rd, ev.atts)
              [] OTHER -> Unknown_element(d, rd, ev)
      [] ev.k = "End" -> BreakCmd(rd, f.obj)
      [] ev.k = "Eof" -> ErrCmd(rd, ErrEof)
      [] ev.k = "Err" -> ErrCmd(rd, ErrXml)
      [] OTHER -> ContCmd(rd)

\* Source::from_xml, the loop.
Source_iter(d, ev, rd, f) ==
    CASE ev.k = "Start" ->
            CASE ev.name = N("id") ->
                    Call_atom_text(rd, <<>>, Slot("id", "set", "unwrap_or_default"))
              [] ev.name = N("title") -> Text_from_xml(rd, ev.atts, "title", "set")
              [] ev.name = N("updated") ->
                    Call_atom_text(rd, <<>>, Slot("updated", "set", "updated"))
              [] ev.name = N("author") ->
                    CallCmd(rd, Frame("Person", PersonDefault, Slot("authors", "push", ""),
                                      rd.pos))
              [] ev.name = N("category") -> Category_from_xml(d, rd, ev.atts)
              [] ev.name = N("contributor") ->
                    CallCmd(rd, Frame("Person", PersonDefault,
                                      Slot("contributors", "push", ""), rd.pos))
              [] ev.name = N("generator") -> Generator_from_xml(rd, ev.atts)
              [] ev.name = N("icon") ->
                    Call_atom_text(rd, <<>>, Slot("icon", "set", "option"))
              [] ev.name = N("link") -> Push_link(rd, ev.atts)
              [] ev.name = N("logo") ->
                    Call_atom_text(rd, <<>>, Slot("logo", "set", "option"))
              [] ev.name = N("rights") -> Text_from_xml(rd, ev.atts, "rights", "some")
              [] ev.name = N("subtitle") -> Text_from_xml(rd, ev.atts, "subtitle", "some")
              [] OTHER ->
                    LET e == read_to_end(d, rd, ev.name)
                    IN  IF e.ok THEN ContCmd(e.rd) ELSE ErrCmd(e.rd, ErrXml)
      [] ev.k = "End" -> BreakCmd(rd, f.obj)
      [] ev.k = "Eof" -> ErrCmd(rd, ErrEof)
      [] ev.k = "Err" -> ErrCmd(rd, ErrXml)
      [] OTHER -> ContCmd(rd)

\* Person::from_xml ending its loop at Eof as it does at End.
Person_iter_eof_ends(d, ev, rd, f) ==
    CASE ev.k = "Start" ->
            CASE ev.name = N("name") ->
                    Call_atom_text(rd, <<>>, Slot("name", "set", "unwrap_or_default"))
              [] ev.name = N("email") ->
                    Call_atom_text(rd, <<>>, Slot("email", "set", "option"))
              [] ev.name = N("uri") ->
                    Call_atom_text(rd, <<>>, Slot("uri", "set", "option"))
              [] OTHER ->
                    LET e == read_to_end(d, rd, ev.name)
                    IN  IF e.ok THEN ContCmd(e.rd) ELSE ErrCmd(e.rd, ErrXml)
      [] ev.k \in {"End", "Eof"} -> BreakCmd(rd, f.obj)
      [] ev.k = "Err" -> ErrCmd(rd, ErrXml)
      [] OTHER -> ContCmd(rd)

\* Person::from_xml, the loop.
Person_iter(d, ev, rd, f) ==
    CASE ev.k = "Start" ->
            CASE ev.name = N("name") ->
                    Call_atom_text(rd, <<>>, Slot("name", "set", "unwrap_or_default"))
              [] ev.name = N("email") ->
                    Call_atom_text(rd, <<>>, Slot("email", "set", "option"))
              [] ev.name = N("uri") ->
                    Call_atom_text(rd, <<>>, Slot("uri", "set", "option"))
              [] OTHER ->
                    LET e == read_to_end(d, rd, ev.name)
                    IN  IF e.ok THEN ContCmd(e.rd) ELSE ErrCmd(e.rd, ErrXml)
      [] ev.k = "End" -> BreakCmd(rd, f.obj)
      [] ev.k = "Eof" -> ErrCmd(rd, ErrEof)
      [] ev.k = "Err" -> ErrCmd(rd, ErrXml)
      [] OTHER -> ContCmd(rd)

\* parse_extension_element, the loop and what follows it.  Text is unescaped
\* as a whole by unescape_and_decode; a reference inside it is resolved by the
\* same call, so a GeneralRef event is the "&name;" part of that text.
parse_extension_element_iter(d, ev, rd, f) ==
    CASE ev.k = "Start" ->
            LET a == Extension_atts(ev.atts, ExtensionDefault)
            IN  IF ~a.ok THEN ErrCmd(rd, a.val)
                ELSE CallCmd(rd, Frame("parse_extension_element", a.val,
                                       ExtSlot("ext_child", <<>>, local_name(ev.name)),
                                       rd.pos))
      [] ev.k = "CData" -> LoopCmd(rd, [f EXCEPT !.buf = f.buf \o ev.s])
      [] ev.k = "Text" ->
            LET u == unescape(ev.s)
            IN  IF u.ok THEN LoopCmd(rd, [f EXCEPT !.buf = f.buf \o u.val])
                ELSE ErrCmd(rd, ErrXml)
      [] ev.k = "GeneralRef" ->
            LET u == unescape(<<"&">> \o ev.s \o <<";">>)
            IN  IF u.ok THEN LoopCmd(rd, [f EXCEPT !.buf = f.buf \o u.val])
                ELSE ErrCmd(rd, ErrXml)
      [] ev.k = "End" ->
            BreakCmd(rd, [f.obj EXCEPT !.name = ev.name,
                                       !.value = non_empty(Trim(f.buf))])
      [] ev.k = "Eof" -> ErrCmd(rd, ErrEof)
      [] ev.k = "Err" -> ErrCmd(rd, ErrXml)
      [] OTHER -> LoopCmd(rd, f)

(***************************************************************************)
(* Running a command: the effect of one loop iteration on the state.       *)
(***************************************************************************)
Top == Last(stack)

\* An error of an inner call dropped by its caller instead of propagated.
SwallowError(r) ==
    IF ~r.ok /\ Len(stack) > 1
    THEN /\ stack' = Front(stack)
         /\ UNCHANGED result
    ELSE /\ result' = Some(r)
         /\ stack' = <<>>

Finish(r) ==
    /\ result' = Some(r)
    /\ stack' = <<>>

\* A frame returns v to its caller; the outermost frame returns it to the
\* caller of read_from.
Return(slot, v) ==
    IF Len(stack) = 1 THEN Finish(Ok(v))
    ELSE /\ stack' = Append(SubSeq(stack, 1, Len(stack) - 2),
                            Deliver(stack[Len(stack) - 1], slot, v))
         /\ UNCHANGED result

Run(cmd) ==
    /\ reader' = cmd.rd
    /\ CASE cmd.c = "cont" -> UNCHANGED <<stack, result>>
         [] cmd.c = "loop" ->
                /\ stack' = Append(Front(stack), cmd.frame)
                /\ UNCHANGED result
         [] cmd.c = "put" ->
                /\ stack' = Append(Front(stack), Deliver(Top, cmd.slot, cmd.val))
                /\ UNCHANGED result
         [] cmd.c = "call" ->
                /\ stack' = Append(stack, cmd.frame)
                /\ UNCHANGED result
         [] cmd.c = "break" -> Return(Top.slot, cmd.val)
         [] cmd.c = "err" -> Finish(Err(cmd.val))
    /\ UNCHANGED <<doc, phase, written, output>>

\* The end of a text reader that leaves expand_empty_elements as the scan had
\* it.
TextBreak_no_restore(cmd) ==
    LET r == TextReturn(Top, non_empty(cmd.val))
    IN  /\ reader' = cmd.rd
        /\ IF r.ok THEN Return(Top.slot, r.val) ELSE Finish(Err(r.val))
        /\ UNCHANGED <<doc, phase, written, output>>

\* The end of atom_text / atom_xhtml after the loop: expand_empty_elements is
\* set again, the content goes through non_empty, and the caller converts it.
TextBreak(cmd) ==
    LET r == TextReturn(Top, non_empty(cmd.val))
    IN  /\ reader' = [cmd.rd EXCEPT !.expand = TRUE]
        /\ IF r.ok THEN Return(Top.slot, r.val) ELSE Finish(Err(r.val))
        /\ UNCHANGED <<doc, phase, written, output>>

Running == stack # <<>>
Next1 == ReadEvent(doc, reader)

(***************************************************************************)
(* Writing.  The writer's output is a sequence of items: a tag with its    *)
(* attribute values as the bytes written, or a run of raw character data.  *)
(* BytesText::from_escaped and BytesText::borrowed write their bytes as    *)
(* they are (lib.rs: "Writing a feed does not perform any escaping of XML  *)
(* entities"); BytesText::from_plain_str and BytesText::new escape them.   *)
(* push_attribute escapes a (&str, &str) value and writes a (&[u8], &[u8]) *)
(* value as it is.                                                         *)
(***************************************************************************)
WText(raw) == Ev("WText", <<>>, <<>>, raw)

\* The atoms of map keys in byte order, for the iteration order of BTreeMap.
AtomOrder ==
    <<":", "a", "b", "child", "dc", "ext", "k", "parent", "t", "title", "type", "x">>

AtomRank(a) == CHOOSE i \in 1..Len(AtomOrder) : AtomOrder[i] = a

RECURSIVE KeyLess(_, _)
KeyLess(k1, k2) ==
    IF k1 = <<>> THEN k2 # <<>>
    ELSE IF k2 = <<>> THEN FALSE
    ELSE IF Head(k1) = Head(k2) THEN KeyLess(Tail(k1), Tail(k2))
    ELSE AtomRank(Head(k1)) < AtomRank(Head(k2))

\* The keys of a BTreeMap in iteration order.
RECURSIVE SortedKeys(_)
SortedKeys(S) ==
    IF S = {} THEN <<>>
    ELSE LET k == CHOOSE x \in S : \A y \in S : x = y \/ KeyLess(x, y)
         IN  <<k>> \o SortedKeys(S \ {k})

\* An optional attribute pushed as (&str, &str): escaped.
OptAttr(key, opt) == IF opt = None THEN <<>> ELSE <<Attr(key, escape(opt[1]))>>

\* toxml.rs write_text_element
write_text_element(name, text) == <<Start(name, <<>>), WText(text), End(name)>>

\* Text::to_xml_named escaping the value whatever the type.
Text_to_xml_named_escaped(text, name) ==
    <<Start(name, OptAttr(XmlBase, text.base) \o OptAttr(XmlLang, text.lang)
                  \o (IF text.type # "Text"
                      THEN <<Attr(N("type"),
                                  IF text.type = "Html" THEN N("html") ELSE N("xhtml"))>>
                      ELSE <<>>)),
      WText(escape(text.value)),
      End(name)>>

\* impl ToXmlNamed for Text
Text_to_xml_named(text, name) ==
    <<Start(name, OptAttr(XmlBase, text.base) \o OptAttr(XmlLang, text.lang)
                  \o (IF text.type # "Text"
                      THEN <<Attr(N("type"),
                                  IF text.type = "Html" THEN N("html") ELSE N("xhtml"))>>
                      ELSE <<>>)),
      WText(IF text.type = "Xhtml" THEN text.value ELSE escape(text.value)),
      End(name)>>

\* impl ToXmlNamed for Person
Person_to_xml_named(person, name) ==
    <<Start(name, <<>>)>> \o write_text_element(N("name"), person.name)
    \o (IF person.email # None THEN write_text_element(N("email"), person.email[1])
        ELSE <<>>)
    \o (IF person.uri # None THEN write_text_element(N("uri"), person.uri[1]) ELSE <<>>)
    \o <<End(name)>>

\* impl ToXml for Category
Category_to_xml(category) ==
    <<Empty(N("category"),
            <<Attr(N("term"), escape(category.term))>>
            \o OptAttr(N("scheme"), category.scheme)
            \o OptAttr(N("label"), category.label))>>

\* impl ToXml for Generator
Generator_to_xml(generator) ==
    <<Start(N("generator"),
            OptAttr(N("uri"), generator.uri) \o OptAttr(N("version"), generator.version)),
      WText(generator.value),
      End(N("generator"))>>

\* impl ToXml for Link
Link_to_xml(link) ==
    <<Empty(N("link"),
            <<Attr(N("href"), escape(link.href)), Attr(N("rel"), escape(link.rel))>>
            \o OptAttr(N("hreflang"), link.hreflang)
            \o OptAttr(N("type"), link.mime_type)
            \o OptAttr(N("title"), link.title)
            \o OptAttr(N("length"), link.length))>>

\* impl ToXml for Content
Content_to_xml(content) ==
    <<Start(N("content"),
            OptAttr(XmlBase, content.base) \o OptAttr(XmlLang, content.lang)
            \o OptAttr(N("type"), content.content_type)
            \o OptAttr(N("src"), content.src))>>
    \o (IF content.value # None
        THEN <<WText(IF content.content_type = Some(N("xhtml"))
                     THEN content.value[1] ELSE escape(content.value[1]))>>
        ELSE <<>>)
    \o <<End(N("content"))>>

\* write_objects_named(persons, name): each in list order.
RECURSIVE Persons_to_xml(_, _)
Persons_to_xml(persons, name) ==
    IF persons = <<>> THEN <<>>
    ELSE Person_to_xml_named(Head(persons), name) \o Persons_to_xml(Tail(persons), name)

\* write_objects(categories)
RECURSIVE Categories_to_xml(_)
Categories_to_xml(categories) ==
    IF categories = <<>> THEN <<>>
    ELSE Category_to_xml(Head(categories)) \o Categories_to_xml(Tail(categories))

\* write_objects(links)
RECURSIVE Links_to_xml(_)
Links_to_xml(links) ==
    IF links = <<>> THEN <<>>
    ELSE Link_to_xml(Head(links)) \o Links_to_xml(Tail(links))

\* The attributes of an extension element, in map order, as raw bytes.
RECURSIVE Extension_attrs(_, _)
Extension_attrs(attrs, keys) ==
    IF keys = <<>> THEN <<>>
    ELSE <<Attr(Head(keys), attrs[Head(keys)])>> \o Extension_attrs(attrs, Tail(keys))

\* impl ToXml for Extension
RECURSIVE Extension_to_xml(_)
RECURSIVE Extension_list_to_xml(_)
RECURSIVE Extension_children_to_xml(_, _)
\* Extension::to_xml writing the value after the children.
Extension_to_xml_value_last(extension) ==
    <<Start(extension.name,
            Extension_attrs(extension.attrs, SortedKeys(DOMAIN extension.attrs)))>>
    \o Extension_children_to_xml(extension.children, SortedKeys(DOMAIN extension.children))
    \o (IF extension.value # None THEN <<WText(escape(extension.value[1]))>> ELSE <<>>)
    \o <<End(extension.name)>>

Extension_to_xml(extension) ==
    <<Start(extension.name,
            Extension_attrs(extension.attrs, SortedKeys(DOMAIN extension.attrs)))>>
    \o (IF extension.value # None THEN <<WText(escape(extension.value[1]))>> ELSE <<>>)
    \o Extension_children_to_xml(extension.children, SortedKeys(DOMAIN extension.children))
    \o <<End(extension.name)>>

Extension_list_to_xml(list) ==
    IF list = <<>> THEN <<>>
    ELSE Extension_to_xml(Head(list)) \o Extension_list_to_xml(Tail(list))

Extension_children_to_xml(children, keys) ==
    IF keys = <<>> THEN <<>>
    ELSE Extension_list_to_xml(children[Head(keys)])
         \o Extension_children_to_xml(children, Tail(keys))

\* "for map in extensions.values() { for extensions in map.values() { .. } }"
RECURSIVE ExtensionMap_to_xml(_, _)
ExtensionMap_to_xml(extensions, keys) ==
    IF keys = <<>> THEN <<>>
    ELSE Extension_children_to_xml(extensions[Head(keys)],
                                   SortedKeys(DOMAIN extensions[Head(keys)]))
         \o ExtensionMap_to_xml(extensions, Tail(keys))

OptText(opt, name) == IF opt = None THEN <<>> ELSE Text_to_xml_named(opt[1], name)
OptTextElement(opt, name) == IF opt = None THEN <<>> ELSE write_text_element(name, opt[1])

\* impl ToXml for Source
Source_to_xml(source) ==
    <<Start(N("source"), <<>>)>>
    \o Text_to_xml_named(source.title, N("title"))
    \o write_text_element(N("id"), source.id)
    \o write_text_element(N("updated"), <<source.updated>>)
    \o Persons_to_xml(source.authors, N("author"))
    \o Categories_to_xml(source.categories)
    \o Persons_to_xml(source.contributors, N("contributor"))
    \o (IF source.generator # None THEN Generator_to_xml(source.generator[1]) ELSE <<>>)
    \o OptTextElement(source.icon, N("icon"))
    \o Links_to_xml(source.links)
    \o OptTextElement(source.logo, N("logo"))
    \o OptText(source.rights, N("rights"))
    \o OptText(source.subtitle, N("subtitle"))
    \o <<End(N("source"))>>

\* impl ToXml for Entry
Entry_to_xml(entry) ==
    <<Start(N("entry"), <<>>)>>
    \o Text_to_xml_named(entry.title, N("title"))
    \o write_text_element(N("id"), entry.id)
    \o write_text_element(N("updated"), <<entry.updated>>)
    \o Persons_to_xml(entry.authors, N("author"))
    \o Categories_to_xml(entry.categories)
    \o Persons_to_xml(entry.contributors, N("contributor"))
    \o Links_to_xml(entry.links)
    \o (IF entry.published # None
        THEN write_text_element(N("published"), entry.published) ELSE <<>>)
    \o OptText(entry.rights, N("rights"))
    \o (IF entry.source # None THEN Source_to_xml(entry.source[1]) ELSE <<>>)
    \o OptText(entry.summary, N("summary"))
    \o (IF entry.content # None THEN Content_to_xml(entry.content[1]) ELSE <<>>)
    \o ExtensionMap_to_xml(entry.extensions, SortedKeys(DOMAIN entry.extensions))
    \o <<End(N("entry"))>>

\* write_objects(entries)
RECURSIVE Entries_to_xml(_)
Entries_to_xml(entries) ==
    IF entries = <<>> THEN <<>>
    ELSE Entry_to_xml(Head(entries)) \o Entries_to_xml(Tail(entries))

\* The xmlns:<prefix> attributes of the feed tag, in map order, as raw bytes.
RECURSIVE Namespace_attrs(_, _)
Namespace_attrs(namespaces, keys) ==
    IF keys = <<>> THEN <<>>
    ELSE <<Attr(<<"xmlns", ":">> \o Head(keys), namespaces[Head(keys)])>>
         \o Namespace_attrs(namespaces, Tail(keys))

\* Feed::to_xml writing the icon before the generator.
Feed_to_xml_icon_first(feed) ==
    <<Start(FeedTag,
            <<Attr(N("xmlns"), N("http://www.w3.org/2005/Atom"))>>
            \o Namespace_attrs(feed.namespaces, SortedKeys(DOMAIN feed.namespaces))
            \o OptAttr(XmlBase, feed.base) \o OptAttr(XmlLang, feed.lang))>>
    \o Text_to_xml_named(feed.title, N("title"))
    \o write_text_element(N("id"), feed.id)
    \o write_text_element(N("updated"), <<feed.updated>>)
    \o Persons_to_xml(feed.authors, N("author"))
    \o Categories_to_xml(feed.categories)
    \o Persons_to_xml(feed.contributors, N("contributor"))
    \o OptTextElement(feed.icon, N("icon"))
    \o (IF feed.generator # None THEN Generator_to_xml(feed.generator[1]) ELSE <<>>)
    \o Links_to_xml(feed.links)
    \o OptTextElement(feed.logo, N("logo"))
    \o OptText(feed.rights, N("rights"))
    \o OptText(feed.subtitle, N("subtitle"))
    \o Entries_to_xml(feed.entries)
    \o ExtensionMap_to_xml(feed.extensions, SortedKeys(DOMAIN feed.extensions))
    \o <<End(FeedTag)>>

\* impl ToXml for Feed
Feed_to_xml(feed) ==
    <<Start(FeedTag,
            <<Attr(N("xmlns"), N("http://www.w3.org/2005/Atom"))>>
            \o Namespace_attrs(feed.namespaces, SortedKeys(DOMAIN feed.namespaces))
            \o OptAttr(XmlBase, feed.base) \o OptAttr(XmlLang, feed.lang))>>
    \o Text_to_xml_named(feed.title, N("title"))
    \o write_text_element(N("id"), feed.id)
    \o write_text_element(N("updated"), <<feed.updated>>)
    \o Persons_to_xml(feed.authors, N("author"))
    \o Categories_to_xml(feed.categories)
    \o Persons_to_xml(feed.contributors, N("contributor"))
    \o (IF feed.generator # None THEN Generator_to_xml(feed.generator[1]) ELSE <<>>)
    \o OptTextElement(feed.icon, N("icon"))
    \o Links_to_xml(feed.links)
    \o OptTextElement(feed.logo, N("logo"))
    \o OptText(feed.rights, N("rights"))
    \o OptText(feed.subtitle, N("subtitle"))
    \o Entries_to_xml(feed.entries)
    \o ExtensionMap_to_xml(feed.extensions, SortedKeys(DOMAIN feed.extensions))
    \o <<End(FeedTag)>>

\* Feed::write_to: the declaration, a newline, the feed.
write_to(feed) == <<Decl, WText(<<"\n">>)>> \o Feed_to_xml(feed)

(***************************************************************************)
(* What the reader makes of the writer's output.  A tag item is read as    *)
(* the event it was written from; a run of raw character data is read as   *)
(* markup: "<...>" is a tag, "&name;" a reference, anything else text, and *)
(* an unterminated "<" or "&" is ill-formed.                               *)
(***************************************************************************)
TagName(content) ==
    LET i == IndexOf(content, " ")
    IN  IF i = 0 THEN content ELSE SubSeq(content, 1, i - 1)

\* The length of the longest prefix of s free of markup characters.
RECURSIVE TextRun(_)
TextRun(s) ==
    IF s = <<>> \/ Head(s) \in {"<", "&", "<!--"} THEN 0 ELSE 1 + TextRun(Tail(s))

RECURSIVE Lex(_)
Lex(raw) ==
    IF raw = <<>> THEN <<>>
    ELSE IF Head(raw) = "&" THEN
        LET semi == IndexOf(raw, ";")
        IN  IF semi # 3 THEN <<SyntaxErr>>
            ELSE <<GeneralRef(raw[2])>> \o Lex(SubSeq(raw, 4, Len(raw)))
    ELSE IF Head(raw) = "<!--" THEN
        LET close == IndexOf(raw, "-->")
        IN  IF close = 0 THEN <<SyntaxErr>>
            ELSE <<Comment(SubSeq(raw, 2, close - 1))>>
                 \o Lex(SubSeq(raw, close + 1, Len(raw)))
    ELSE IF Head(raw) = "<" THEN
        LET close == IndexOf(raw, ">")
            content == SubSeq(raw, 2, close - 1)
            rest == SubSeq(raw, close + 1, Len(raw))
        IN  IF close <= 2 THEN <<SyntaxErr>>
            ELSE IF Head(content) = "/"
            THEN <<End(Tail(content))>> \o Lex(rest)
            ELSE IF Last(content) = "/"
            THEN <<Ev("Empty", TagName(Front(content)), <<>>, Front(content))>> \o Lex(rest)
            ELSE <<Ev("Start", TagName(content), <<>>, content)>> \o Lex(rest)
    ELSE LET n == TextRun(raw)
         IN  <<Text(SubSeq(raw, 1, n))>> \o Lex(SubSeq(raw, n + 1, Len(raw)))

\* The events of the document the writer produced.
RECURSIVE Tokenize(_)
Tokenize(items) ==
    IF items = <<>> THEN <<>>
    ELSE (IF Head(items).k = "WText" THEN Lex(Head(items).s) ELSE <<Head(items)>>)
         \o Tokenize(Tail(items))


(***************************************************************************)
(* Inputs.  The documents read_from is called on, as the event sequences   *)
(* the reader yields for them, and the feeds a caller builds and writes.   *)
(***************************************************************************)
MaxProlog == 2     \* events before the root tag
MaxPieces == 2     \* pieces of an element body handed to a text reader
MaxChildren == 2   \* children of the feed element
MaxRootAttrs == 3  \* attributes of the feed tag
MaxLinkAttrs == 2  \* attributes of a link tag

SeqsUpTo(S, n) == UNION {[1..k -> S] : k \in 0..n}

El(name, atts, body) == <<Start(name, atts)>> \o body \o <<End(name)>>
InFeed(children) == El(FeedTag, <<>>, children)

\* What may precede the root element.
Misc == {Decl, Comment(N("n")), Text(N(" ")), DocType, PI}

Roots ==
    { <<>>,
      <<Start(N("wrong"), <<>>), End(N("wrong"))>>,
      <<Empty(N("wrong"), <<>>)>>,
      <<Empty(FeedTag, <<>>)>>,
      <<Start(FeedTag, <<>>)>>,
      InFeed(<<>>),
      El(N("wrong"), <<>>, InFeed(<<>>)) }

RootDocs == {p \o r : p \in SeqsUpTo(Misc, MaxProlog), r \in Roots}

\* The pieces of an element body.
Pieces ==
    { <<Text(N("a"))>>, <<Text(N(" "))>>, <<CData(<<"<", "c">>)>>,
      <<GeneralRef("amp")>>, <<GeneralRef("nbsp")>>, <<GeneralRef("#60")>>,
      <<GeneralRef("#zz")>>,
      <<Comment(N("n"))>>, <<PI>>,
      <<Empty(N("br"), <<Attr(N("k"), <<"&", "amp", ";">>)>>)>>,
      El(N("b"), <<>>, <<>>),
      El(N("b"), <<Attr(N("k"), N("v"))>>, <<Text(N("a"))>>),
      El(N("b"), <<>>, El(N("i"), <<>>, <<Empty(N("br"), <<>>)>>)),
      <<Start(N("b"), <<>>)>> }

Bodies == {Concat(ps) : ps \in SeqsUpTo(Pieces, MaxPieces)}

\* The examples of the text readers' unit tests.
PlainExample ==
    <<Text(N("Text with ampersand ")), GeneralRef("amp"), Text(N(" ")),
      GeneralRef("lt"), Text(N("tag")), GeneralRef("gt"), Text(N(" and ")),
      Empty(N("inner"), <<>>), Text(N("."))>>

XhtmlExample ==
    El(N("div"), <<>>,
       <<Text(N("a")), Empty(N("br"), <<>>), GeneralRef("amp"), Text(<<" ", "b">>)>>)

XhtmlType == <<Attr(N("type"), N("xhtml"))>>
HtmlType == <<Attr(N("type"), N("html"))>>

TextDocs ==
    {InFeed(El(N("title"), <<>>, b)) : b \in Bodies \cup {PlainExample}}
    \cup {InFeed(El(N("title"), XhtmlType, b)) : b \in Bodies \cup {XhtmlExample}}
    \cup {InFeed(El(N("title"), HtmlType, b)) : b \in Bodies}
    \cup {InFeed(El(N("icon"), <<>>, b)) : b \in Bodies}
    \cup {InFeed(<<Empty(N("title"), a), Text(N(" "))>>) : a \in {<<>>, XhtmlType}}
    \cup {InFeed(El(N("subtitle"), a, <<>>)) : a \in {<<>>, HtmlType, XhtmlType}}
    \cup {InFeed(El(N("title"),
                    t \o <<Attr(XmlLang, <<"e", "&", "amp", ";", "n">>),
                           Attr(XmlBase, N("u"))>>,
                    <<Text(N("a")), GeneralRef("lt")>>)) :
            t \in {<<>>, HtmlType, XhtmlType}}

ExtT == <<"ext", ":", "t">>
ExtChild == <<"ext", ":", "child">>
GoodDate == N("2017-06-03T15:15:44-05:00")

PersonBody ==
    El(N("name"), <<>>, <<Text(N("a"))>>) \o El(N("foo"), <<>>, <<Empty(N("bar"), <<>>)>>)
    \o <<Text(N(" "))>> \o El(N("email"), <<>>, <<>>)

ExtensionEl ==
    El(ExtT, <<Attr(N("k"), <<"&", "amp", ";">>)>>,
       <<Text(<<" ", "x">>), GeneralRef("amp")>>
       \o El(ExtChild, <<>>, <<CData(N("a")), Text(N(" "))>>)
       \o <<Comment(N("n"))>>)

SourceEl ==
    El(N("source"), <<>>,
       El(N("title"), <<>>, <<Text(N("a"))>>) \o El(ExtT, <<>>, <<Text(N("x"))>>)
       \o <<Text(N(" "))>> \o El(N("generator"), <<>>, <<Text(N("g"))>>))

EntryEl ==
    El(N("entry"), <<>>,
       El(N("id"), <<>>, <<Text(N("a"))>>)
       \o El(N("content"), XhtmlType, XhtmlExample)
       \o <<Text(N(" "))>>
       \o El(N("published"), <<>>, <<Text(GoodDate)>>)
       \o SourceEl
       \o El(N("summary"), <<>>, <<>>)
       \o ExtensionEl)

\* The children of the feed element.
Children ==
    { El(N("title"), <<Attr(N("type"), N("html"))>>, <<Text(N("a")), GeneralRef("lt")>>),
      El(N("id"), <<>>, <<Text(N("a"))>>),
      El(N("updated"), <<>>, <<Text(GoodDate)>>),
      El(N("updated"), <<>>, <<Text(N("a"))>>),
      El(N("author"), <<>>, PersonBody),
      <<Empty(N("category"), <<Attr(N("term"), N("a"))>>)>>,
      El(N("category"), <<>>, El(N("category"), <<>>, <<>>)),
      El(N("generator"), <<Attr(N("uri"), N("u"))>>, <<Text(N("g"))>>),
      <<Empty(N("link"), <<Attr(N("href"), N("u"))>>)>>,
      El(N("logo"), <<>>, <<Text(N(" "))>>),
      El(N("subtitle"), <<Attr(N("type"), N("bogus"))>>, <<>>),
      EntryEl,
      ExtensionEl,
      El(N("foo"), <<>>, <<Empty(N("bar"), <<>>)>>),
      <<Text(N(" "))>> }

FeedDocs == {InFeed(Concat(cs)) : cs \in SeqsUpTo(Children, MaxChildren)}

\* Inputs that end early: every prefix of a document with every kind of element.
LongDoc ==
    <<Decl>>
    \o InFeed(El(N("title"), <<>>, El(N("b"), <<>>, <<Text(N("a"))>>))
              \o El(N("contributor"), <<>>, PersonBody)
              \o El(N("category"), <<>>, <<>>)
              \o EntryEl
              \o El(N("foo"), <<>>, <<>>))

Truncated == {SubSeq(LongDoc, 1, n) : n \in 0..Len(LongDoc)}

\* Attribute values: well-formed ones and ones with a malformed reference.
AttrValues == {N("v"), <<"&", "amp", ";">>, <<"&", ";">>, <<"a", "&">>, <<"&", "nbsp", ";">>}

AttrKeys ==
    { XmlBase, XmlLang, <<"xmlns", ":", "x">>, <<"xmlns", ":", "dc">>, N("type"),
      N("term"), N("uri"), N("href"), N("src"), N("k") }

\* The elements an attribute may sit on; "" is the feed tag itself.
AttrSites ==
    {"", "title", "id", "author", "name", "category", "generator", "link", "entry",
     "content", "source", "rights", "summary", "extension", "child", "foo"}

AttrDoc(site, atts) ==
    CASE site = "" -> El(FeedTag, atts, <<>>)
      [] site \in {"title", "id", "category", "generator", "link", "foo"} ->
            InFeed(El(N(site), atts, <<>>))
      [] site = "author" -> InFeed(El(N("author"), atts, <<>>))
      [] site = "name" -> InFeed(El(N("author"), <<>>, El(N("name"), atts, <<>>)))
      [] site = "entry" -> InFeed(El(N("entry"), atts, <<>>))
      [] site = "content" -> InFeed(El(N("entry"), <<>>, El(N("content"), atts, <<>>)))
      [] site = "source" ->
            InFeed(El(N("entry"), <<>>, El(N("source"), atts, <<>>)))
      [] site = "rights" ->
            InFeed(El(N("entry"), <<>>,
                      El(N("source"), <<>>, El(N("rights"), atts, <<>>))))
      [] site = "summary" -> InFeed(El(N("entry"), <<>>, El(N("summary"), atts, <<>>)))
      [] site = "extension" -> InFeed(El(ExtT, atts, <<>>))
      [] site = "child" ->
            InFeed(El(N("entry"), <<>>,
                      El(ExtT, <<>>, El(ExtChild, <<>>, El(ExtChild, atts, <<>>)))))

AttrDocs ==
    {AttrDoc(site, <<Attr(k, v)>>) : site \in AttrSites, k \in AttrKeys, v \in AttrValues}
    \cup {AttrDoc(site, <<Attr(N("type"), t), Attr(XmlLang, <<"&", ";">>)>>) :
            site \in {"title", "content", "link"}, t \in {N("bogus"), N("html")}}
    \cup {AttrDoc("title", <<Attr(XmlLang, v), Attr(N("type"), N("bogus"))>>) :
            v \in {N("v"), <<"&", ";">>}}
    \cup {InFeed(<<Empty(N("link"), <<>>)>> \o El(N("title"), <<Attr(XmlLang, v)>>, <<>>)) :
            v \in AttrValues}

\* Extension elements under feed and under entry: the example of the test
\* read_extension, a name with an empty prefix and one with an empty local
\* part, lists of several nodes under one key, children of several names
\* and prefixes, and values made of text, CDATA and references around
\* child elements.
ExtDocs ==
    LET ExtTitle == El(<<"ext", ":", "title">>, <<Attr(N("type"), N("text"))>>,
                       <<Text(N("Title"))>>)
        Child(name, text) == El(name, <<>>, <<Text(N(text))>>)
        Parent ==
            El(<<"ext", ":", "parent">>, <<Attr(N("k"), N("v")), Attr(N("a"), N("b"))>>,
               Child(ExtChild, "a") \o <<Empty(<<"x", ":", "b">>, <<>>)>>
               \o Child(ExtChild, "b") \o Child(N("child"), "x")
               \o El(<<"x", ":", "child">>, <<>>, Child(ExtChild, "k")))
        Mixed ==
            El(ExtT, <<>>,
               <<Text(<<" ", "a">>), CData(<<"<", "b">>)>> \o Child(ExtChild, "x")
               \o <<GeneralRef("lt"), Text(N(" ")), CData(N(" "))>>)
        Blank == El(ExtT, <<>>, <<Text(N(" "))>> \o Child(ExtChild, "x") \o <<CData(N(" "))>>)
        Bodies15 ==
            { El(N("title"), <<>>, <<Text(N("a"))>>) \o ExtTitle,
              El(<<":", "x">>, <<>>, <<Text(N("a"))>>),
              El(<<"ext", ":">>, <<>>, <<Text(N("a"))>>),
              Parent,
              Mixed,
              Blank,
              Child(ExtT, "a") \o Child(<<"x", ":", "t">>, "b") \o Child(ExtT, "b")
              \o Child(<<"ext", ":", "x">>, "k"),
              Parent \o Mixed \o Parent }
    IN  {InFeed(b) : b \in Bodies15}
        \cup {InFeed(El(N("entry"), <<>>, b)) : b \in Bodies15}

\* Feed tags with several attributes: namespace declarations (one prefix
\* twice, the prefix dc, the default namespace with a value that is no URI),
\* xml:base, xml:lang and an attribute the feed does not know.
RootAttrDocs ==
    LET RootAttrs ==
            { Attr(N("xmlns"), <<"&", ";">>),
              Attr(<<"xmlns", ":", "x">>, N("u")),
              Attr(<<"xmlns", ":", "x">>, <<"&", "amp", ";">>),
              Attr(<<"xmlns", ":", "a">>, <<"&", ";">>),
              Attr(<<"xmlns", ":", "dc">>, <<"&", ";">>),
              Attr(XmlBase, N("u")),
              Attr(XmlLang, <<"e", "&", "amp", ";", "n">>),
              Attr(N("k"), N("v")) }
    IN  {El(FeedTag, atts, <<>>) : atts \in SeqsUpTo(RootAttrs, MaxRootAttrs)}

\* A feed document with the elements inner as the children of the feed, of
\* its entry, of the entry's source or of the feed's author.
Under(site, inner) ==
    CASE site = "feed" -> InFeed(inner)
      [] site = "entry" -> InFeed(El(N("entry"), <<>>, inner))
      [] site = "source" -> InFeed(El(N("entry"), <<>>, El(N("source"), <<>>, inner)))
      [] site = "person" -> InFeed(El(N("author"), <<>>, inner))

\* Timestamp elements: absent, empty, well-formed and not a date, alone or
\* after a well-formed one.
DateBodies == {<<>>, <<Text(GoodDate)>>, <<Text(N("a"))>>, <<Text(N("a")), GeneralRef("amp")>>}

DateDocs ==
    {Under(site, <<>>) : site \in {"feed", "entry", "source"}}
    \cup {Under(sn[1], first \o El(sn[2], <<>>, body)) :
             sn \in {<<"feed", N("updated")>>, <<"entry", N("updated")>>,
                     <<"entry", N("published")>>, <<"source", N("updated")>>},
             first \in {<<>>, El(N("updated"), <<>>, <<Text(GoodDate)>>),
                        El(N("published"), <<>>, <<Text(GoodDate)>>)},
             body \in DateBodies}

\* Link elements with up to MaxLinkAttrs attributes, recognized or not.
LinkDocs ==
    LET LinkAttrs ==
            { Attr(N("href"), N("u")), Attr(N("href"), <<"a", "&", "amp", ";">>),
              Attr(N("rel"), N("self")), Attr(N("hreflang"), N("en")),
              Attr(N("type"), N("t")), Attr(N("title"), <<"&", "lt", ";">>),
              Attr(N("length"), N("1")), Attr(N("foo"), <<"&", ";">>) }
    IN  {Under(site, <<Empty(N("link"), atts)>>) :
            site \in {"feed", "entry", "source"},
            atts \in SeqsUpTo(LinkAttrs, MaxLinkAttrs)}

\* Content elements of an entry: with and without type and src, with empty,
\* plain and marked-up bodies.
ContentDocs ==
    LET ContentAttrs ==
            { <<>>, XhtmlType, HtmlType, <<Attr(N("type"), N("XHTML"))>>,
              <<Attr(N("src"), N("u"))>>,
              <<Attr(N("type"), N("image/png")), Attr(N("src"), <<"a", "&", "amp", ";">>)>>,
              <<Attr(XmlLang, N("en")), Attr(N("type"), <<"&", "lt", ";">>),
                Attr(N("foo"), N("v")), Attr(N("type"), <<>>)>>,
              <<Attr(XmlBase, N("u")), Attr(N("type"), N("xhtml")),
                Attr(N("type"), N("text"))>> }
        ContentBodies ==
            { <<>>, <<Text(N("a"))>>, <<Text(N(" "))>>,
              <<Text(N("a")), GeneralRef("lt")>>, <<CData(<<"<", "c">>)>>,
              XhtmlExample, El(N("b"), <<Attr(N("k"), N("v"))>>, <<Text(N("a"))>>) }
    IN  {Under("entry", El(N("content"), atts, body)) :
            atts \in ContentAttrs, body \in ContentBodies}
        \cup {Under("entry", <<Empty(N("content"), atts)>>) : atts \in ContentAttrs}

\* Elements the loops do not know, alone and nested, followed by a sibling
\* the loop does know.
SkipDocs ==
    LET Unknown ==
            { <<Empty(N("foo"), <<Attr(N("k"), <<"&", ";">>)>>)>>,
              El(N("foo"), <<>>, <<Text(N("a")), GeneralRef("nbsp")>>),
              El(N("foo"), <<>>,
                 El(N("foo"), <<>>, <<Empty(N("foo"), <<>>)>>) \o El(N("id"), <<>>, <<Text(N("b"))>>)),
              El(<<":", "x">>, <<>>, El(ExtT, <<>>, <<>>)),
              El(ExtT, <<Attr(N("k"), N("v"))>>, <<Text(N("x"))>> \o El(ExtChild, <<>>, <<>>)),
              El(N("generator"), <<>>, <<Text(N("g"))>>),
              El(N("name"), <<>>, <<Text(N("b"))>>),
              El(N("content"), <<>>, El(N("name"), <<>>, <<>>)) }
    IN  {Under(site, u \o El(IF site = "person" THEN N("name") ELSE N("id"), <<>>,
                             <<Text(N("a"))>>)) :
            site \in {"feed", "entry", "source", "person"}, u \in Unknown}

Docs ==
    DateDocs \cup LinkDocs \cup ContentDocs \cup SkipDocs \cup RootDocs \cup TextDocs \cup FeedDocs \cup Truncated \cup AttrDocs \cup ExtDocs
    \cup RootAttrDocs

\* The feeds a caller builds (with the builders or the setters) and writes.
ExtensionValue ==
    [ExtensionDefault EXCEPT !.name = ExtT, !.value = Some(<<"x", "&", "y">>),
                             !.attrs = MapInsert(EmptyMap, N("k"), N("v"))]

FeedTitles ==
    { [TextDefault EXCEPT !.value = N("a")],
      [TextDefault EXCEPT !.value = <<"<", "b", ">">>, !.type = "Html",
                          !.lang = Some(<<"e", "&", "n">>)],
      [TextDefault EXCEPT !.value = <<"<", "div", ">", "a", "<", "/", "div", ">">>,
                          !.type = "Xhtml"] }

FeedGenerators ==
    { None,
      Some([GeneratorDefault EXCEPT !.value = N("g"), !.uri = Some(N("u"))]),
      Some([GeneratorDefault EXCEPT !.value = <<"&", "lt", ";">>]) }

Feeds ==
    LET Full ==
          [FeedDefault EXCEPT
              !.title = [TextDefault EXCEPT !.value = N("a")],
              !.id = N("x"),
              !.base = Some(N("u")), !.lang = Some(N("en")),
              !.authors = <<[PersonDefault EXCEPT !.name = N("a")],
                            [PersonDefault EXCEPT !.name = N("b")]>>,
              !.categories = <<[CategoryDefault EXCEPT !.term = N("b")],
                               [CategoryDefault EXCEPT !.term = N("a")]>>,
              !.contributors = <<[PersonDefault EXCEPT !.name = N("b")],
                                 [PersonDefault EXCEPT !.name = N("a")]>>,
              !.generator = Some([GeneratorDefault EXCEPT !.value = N("g")]),
              !.icon = Some(N("i")),
              !.links = <<[LinkDefault EXCEPT !.href = N("v")],
                          [LinkDefault EXCEPT !.href = N("u")]>>,
              !.logo = Some(N("l")),
              !.rights = Some([TextDefault EXCEPT !.value = N("r")]),
              !.subtitle = Some([TextDefault EXCEPT !.value = N("s")]),
              !.entries = <<[EntryDefault EXCEPT !.id = N("z")],
                            [EntryDefault EXCEPT !.id = N("y")]>>,
              !.namespaces = MapInsert(MapInsert(EmptyMap, N("x"), N("urn:y")),
                                       N("ext"), N("urn:x")),
              !.extensions =
                  MapInsert(MapInsert(EmptyMap, N("x"),
                                      MapInsert(EmptyMap, N("t"),
                                                <<[ExtensionDefault EXCEPT
                                                      !.name = <<"x", ":", "t">>]>>)),
                            N("ext"),
                            MapInsert(EmptyMap, N("t"), <<ExtensionValue>>))]
    IN
    {Full, FeedDefault} \cup
    { [FeedDefault EXCEPT
          !.title = t, !.id = N("x"), !.generator = g,
          !.authors = a, !.links = l, !.entries = e,
          !.extensions = x,
          !.namespaces = IF x = EmptyMap THEN EmptyMap
                         ELSE MapInsert(EmptyMap, N("ext"), N("urn:x"))] :
        t \in FeedTitles, g \in FeedGenerators,
        a \in {<<>>, <<[PersonDefault EXCEPT !.name = N("a"), !.uri = Some(N("u"))]>>},
        l \in {<<>>, <<[LinkDefault EXCEPT !.href = N("u")]>>},
        e \in {<<>>, <<[EntryDefault EXCEPT
                          !.id = N("y"),
                          !.content = Some([ContentDefault EXCEPT
                                               !.value = Some(<<"a", "<">>)])]>>},
        x \in {EmptyMap,
               MapInsert(EmptyMap, N("ext"),
                         MapInsert(EmptyMap, N("t"), <<ExtensionValue>>))} }

(***************************************************************************)
(* The state machine.                                                      *)
(***************************************************************************)
StartRead(d) ==
    /\ doc = d
    /\ reader = [NewReader EXCEPT !.expand = TRUE]
    /\ stack = <<Frame("read_from", <<>>, NoSlot, 1)>>
    /\ result = None

\* Either read_from is called on a document, or a caller has built a feed.
Init ==
    \/ /\ \E d \in Docs : StartRead(d)
       /\ phase = "parse"
       /\ written = None
       /\ output = <<>>
    \/ /\ \E f \in Feeds : written = Some(f)
       /\ output = <<>>
       /\ phase = "built"
       /\ doc = <<>>
       /\ reader = NewReader
       /\ stack = <<>>
       /\ result = None

\* read_from passing over a Start event that is not the feed tag.
read_from_iter_any_root(ev, rd) ==
    CASE ev.k = "Start" ->
            IF ev.name = FeedTag
            THEN LET a == Feed_atts(ev.atts, FeedDefault)
                 IN  IF a.ok THEN LoopCmd(rd, Frame("Feed", a.val, NoSlot, rd.pos))
                     ELSE ErrCmd(rd, a.val)
            ELSE ContCmd(rd)
      [] ev.k = "Eof" -> ErrCmd(rd, ErrEof)
      [] ev.k = "Err" -> ErrCmd(rd, ErrXml)
      [] OTHER -> ContCmd(rd)

\* read_from reporting the end of the input as a wrong root tag.
read_from_iter_eof_tag(ev, rd) ==
    CASE ev.k = "Start" ->
            IF ev.name = FeedTag
            THEN LET a == Feed_atts(ev.atts, FeedDefault)
                 IN  IF a.ok THEN LoopCmd(rd, Frame("Feed", a.val, NoSlot, rd.pos))
                     ELSE ErrCmd(rd, a.val)
            ELSE ErrCmd(rd, ErrInvalidStartTag)
      [] ev.k = "Eof" -> ErrCmd(rd, ErrInvalidStartTag)
      [] ev.k = "Err" -> ErrCmd(rd, ErrXml)
      [] OTHER -> ContCmd(rd)

\* read_from reading on after the end of the input.
read_from_iter_eof_loops(ev, rd) ==
    CASE ev.k = "Start" ->
            IF ev.name = FeedTag
            THEN LET a == Feed_atts(ev.atts, FeedDefault)
                 IN  IF a.ok THEN LoopCmd(rd, Frame("Feed", a.val, NoSlot, rd.pos))
                     ELSE ErrCmd(rd, a.val)
            ELSE ErrCmd(rd, ErrInvalidStartTag)
      [] ev.k = "Err" -> ErrCmd(rd, ErrXml)
      [] OTHER -> ContCmd(rd)

\* Feed::read_from, one iteration of its loop.
read_from_iter(ev, rd) ==
    CASE ev.k = "Start" ->
            IF ev.name = FeedTag
            THEN LET a == Feed_atts(ev.atts, FeedDefault)
                 IN  IF a.ok THEN LoopCmd(rd, Frame("Feed", a.val, NoSlot, rd.pos))
                     ELSE ErrCmd(rd, a.val)
            ELSE ErrCmd(rd, ErrInvalidStartTag)
      [] ev.k = "Eof" -> ErrCmd(rd, ErrEof)
      [] ev.k = "Err" -> ErrCmd(rd, ErrXml)
      [] OTHER -> ContCmd(rd)

ReadFromStep ==
    /\ Running /\ Top.fn = "read_from"
    /\ Run(read_from_iter(Next1.ev, Next1.rd))

FeedStep ==
    /\ Running /\ Top.fn = "Feed"
    /\ Run(Feed_iter(doc, Next1.ev, Next1.rd, Top))

EntryStep ==
    /\ Running /\ Top.fn = "Entry"
    /\ Run(Entry_iter(doc, Next1.ev, Next1.rd, Top))

SourceStep ==
    /\ Running /\ Top.fn = "Source"
    /\ Run(Source_iter(doc, Next1.ev, Next1.rd, Top))

PersonStep ==
    /\ Running /\ Top.fn = "Person"
    /\ Run(Person_iter(doc, Next1.ev, Next1.rd, Top))

ExtensionStep ==
    /\ Running /\ Top.fn = "parse_extension_element"
    /\ Run(parse_extension_element_iter(doc, Next1.ev, Next1.rd, Top))

AtomTextStep ==
    /\ Running /\ Top.fn = "atom_text"
    /\ LET cmd == atom_text_iter(Next1.ev, Next1.rd, Top)
       IN  IF cmd.c = "break" THEN TextBreak(cmd) ELSE Run(cmd)

AtomXhtmlStep ==
    /\ Running /\ Top.fn = "atom_xhtml"
    /\ LET cmd == atom_xhtml_iter(Next1.ev, Next1.rd, Top)
       IN  IF cmd.c = "break" THEN TextBreak(cmd) ELSE Run(cmd)

\* feed.write_to(buffer) followed by Feed::read_from(buffer), for a feed the
\* caller built.
WriteTo ==
    /\ phase = "built"
    /\ output' = write_to(written[1])
    /\ doc' = Tokenize(write_to(written[1]))
    /\ reader' = [NewReader EXCEPT !.expand = TRUE]
    /\ stack' = <<Frame("read_from", <<>>, NoSlot, 1)>>
    /\ result' = None
    /\ phase' = "reread"
    /\ UNCHANGED written

\* feed.to_string().parse::<Feed>() for a feed that read_from returned.
WriteParsed ==
    /\ phase = "parse"
    /\ result # None /\ result[1].ok
    /\ written' = Some(result[1].val)
    /\ output' = write_to(result[1].val)
    /\ doc' = Tokenize(write_to(result[1].val))
    /\ reader' = [NewReader EXCEPT !.expand = TRUE]
    /\ stack' = <<Frame("read_from", <<>>, NoSlot, 1)>>
    /\ result' = None
    /\ phase' = "reparse"

Next ==
    \/ WriteTo
    \/ WriteParsed
    \/ ReadFromStep
    \/ FeedStep
    \/ EntryStep
    \/ SourceStep
    \/ PersonStep
    \/ ExtensionStep
    \/ AtomTextStep
    \/ AtomXhtmlStep

Spec == Init /\ [][Next]_vars

\* One iteration of whichever loop of read_from is running.
Step ==
    \/ ReadFromStep
    \/ FeedStep
    \/ EntryStep
    \/ SourceStep
    \/ PersonStep
    \/ ExtensionStep
    \/ AtomTextStep
    \/ AtomXhtmlStep

\* The calls whose termination is checked: read_from on every prefix of a
\* document with every kind of element, on the text readers' examples, on
\* the timestamp, content and extension documents, and the feeds a caller
\* builds.
LiveInit ==
    LET LiveDocs ==
            Truncated \cup DateDocs \cup ContentDocs \cup ExtDocs
            \cup {InFeed(El(N("title"), <<>>, PlainExample)),
                  InFeed(El(N("title"), XhtmlType, XhtmlExample)),
                  InFeed(El(N("author"), <<>>, PersonBody)),
                  InFeed(<<Empty(N("link"), <<>>)>> \o El(N("id"), <<>>, <<Text(N("a"))>>))}
    IN  \/ /\ \E d \in LiveDocs : StartRead(d)
           /\ phase = "parse"
           /\ written = None
           /\ output = <<>>
        \/ /\ \E f \in Feeds : written = Some(f)
           /\ output = <<>>
           /\ phase = "built"
           /\ doc = <<>>
           /\ reader = NewReader
           /\ stack = <<>>
           /\ result = None

\* read_from runs on the caller's thread without being suspended: while a
\* loop can take its next iteration it does.
LiveSpec == LiveInit /\ [][Next]_vars /\ WF_vars(Step)


(***************************************************************************)
(* Properties.  What a property says about the input is computed from doc  *)
(* alone, not with the operators of the parser.                            *)
(***************************************************************************)
TextFns == {"atom_text", "atom_xhtml"}
LoopFns == TextFns \cup {"parse_extension_element", "Feed", "Entry", "Source", "Person"}

Failed == result # None /\ ~result[1].ok
Succeeded == result # None /\ result[1].ok

\* The index of the first Start or Empty event of d, 0 when there is none.
RECURSIVE FirstStartFrom(_, _)
FirstStartFrom(d, i) ==
    IF i > Len(d) THEN 0
    ELSE IF d[i].k \in {"Start", "Empty"} THEN i
    ELSE FirstStartFrom(d, i + 1)

FirstStart(d) == FirstStartFrom(d, 1)

\* The index of the End event that closes the element whose content starts at
\* index i of d, counting Start up and End down; 0 when d ends before it.
RECURSIVE MatchFrom(_, _, _)
MatchFrom(d, i, depth) ==
    IF i > Len(d) THEN 0
    ELSE IF d[i].k = "Start" THEN MatchFrom(d, i + 1, depth + 1)
    ELSE IF d[i].k = "End"
    THEN IF depth = 0 THEN i ELSE MatchFrom(d, i + 1, depth - 1)
    ELSE MatchFrom(d, i + 1, depth)

\* The number of elements open at index j among those opened from index i on.
RECURSIVE OpenBetween(_, _, _)
OpenBetween(d, i, j) ==
    IF i > j THEN 0
    ELSE OpenBetween(d, i, j - 1)
         + (IF d[j].k = "Start" THEN 1 ELSE 0) - (IF d[j].k = "End" THEN 1 ELSE 0)

\* The document is <feed><name atts>body</name></feed>.
IsSingle(name, atts) ==
    /\ Len(doc) >= 4
    /\ doc[1] = Start(FeedTag, <<>>)
    /\ doc[2] = Start(name, atts)
    /\ MatchFrom(doc, 3, 0) = Len(doc) - 1
    /\ doc[Len(doc)] = End(FeedTag)

SingleBody == SubSeq(doc, 3, Len(doc) - 2)

\* What an event contributes to the plain-mode content.
PlainPiece(e) ==
    CASE e.k \in {"Text", "CData"} -> e.s
      [] e.k = "GeneralRef" ->
            IF e.s[1] \in DOMAIN PredefinedEntity THEN <<PredefinedEntity[e.s[1]]>>
            ELSE IF e.s[1] \in DOMAIN CharRef THEN <<CharRef[e.s[1]]>>
            ELSE <<"&", e.s[1], ";">>
      [] e.k = "Start" -> <<"<">> \o e.s \o <<">">>
      [] e.k = "End" -> <<"<", "/">> \o e.name \o <<">">>
      [] e.k = "Empty" -> <<"<">> \o e.s \o <<"/", ">">>
      [] e.k = "Comment" -> <<"<!--">> \o e.s \o <<"-->">>
      [] OTHER -> <<>>

\* What an event contributes to the XHTML-mode content.
XhtmlPiece(e) ==
    CASE e.k \in {"Text", "CData"} -> escape(e.s)
      [] e.k = "GeneralRef" -> <<"&", e.s[1], ";">>
      [] OTHER -> PlainPiece(e)

RECURSIVE PlainContent(_)
PlainContent(es) ==
    IF es = <<>> THEN <<>> ELSE PlainPiece(Head(es)) \o PlainContent(Tail(es))

RECURSIVE XhtmlContent(_)
XhtmlContent(es) ==
    IF es = <<>> THEN <<>> ELSE XhtmlPiece(Head(es)) \o XhtmlContent(Tail(es))

\* C1: a feed a caller built, written with write_to and read back with
\* read_from, is read successfully and equals the feed that was written.
C1_RoundTrip ==
    (phase = "reread" /\ result # None) => result = Some(Ok(written[1]))

\* The command the innermost active call yields on the next event.
StepCmd ==
    CASE Top.fn = "read_from" -> read_from_iter(Next1.ev, Next1.rd)
      [] Top.fn = "Feed" -> Feed_iter(doc, Next1.ev, Next1.rd, Top)
      [] Top.fn = "Entry" -> Entry_iter(doc, Next1.ev, Next1.rd, Top)
      [] Top.fn = "Source" -> Source_iter(doc, Next1.ev, Next1.rd, Top)
      [] Top.fn = "Person" -> Person_iter(doc, Next1.ev, Next1.rd, Top)
      [] Top.fn = "parse_extension_element" ->
            parse_extension_element_iter(doc, Next1.ev, Next1.rd, Top)
      [] Top.fn = "atom_text" -> atom_text_iter(Next1.ev, Next1.rd, Top)
      [] Top.fn = "atom_xhtml" -> atom_xhtml_iter(Next1.ev, Next1.rd, Top)

\* The error the innermost active call fails with on the next event, if any.
StepFailure ==
    IF StepCmd.c = "err" THEN Some(StepCmd.val)
    ELSE IF Top.fn \in TextFns /\ StepCmd.c = "break"
            /\ ~TextReturn(Top, non_empty(StepCmd.val)).ok
    THEN Some(TextReturn(Top, non_empty(StepCmd.val)).val)
    ELSE None

\* C2: when a call at any depth of the call stack fails, read_from returns
\* that error at once, with every active call abandoned and no feed; after
\* an error nothing more is read.
C2_ErrorsAreFatal ==
    [][/\ (Running /\ StepFailure # None) =>
              (result' = Some(Err(StepFailure[1])) /\ stack' = <<>>)
       /\ ~Failed]_vars

C2_Witness ==
    /\ Failed
    /\ phase = "parse"
    /\ Len(reader.open) >= 5
    /\ result[1].val \in {ErrXml, ErrEof}

\* A value with a "&" that does not begin a reference "&name;".
Malformed(v) ==
    \E i \in 1..Len(v) :
        /\ v[i] = "&"
        /\ ~(i + 2 <= Len(v) /\ v[i + 1] \notin {"&", ";"} /\ v[i + 2] = ";")

\* A value with a reference to something that is no known entity or character.
Unrecognized(v) ==
    \E i \in 1..Len(v) :
        /\ v[i] = "&" /\ i + 2 <= Len(v) /\ v[i + 2] = ";"
        /\ v[i + 1] \notin (DOMAIN PredefinedEntity) \cup (DOMAIN CharRef)

HasMalformedAttr(d) ==
    \E i \in 1..Len(d) :
        /\ d[i].k \in {"Start", "Empty"}
        /\ \E j \in 1..Len(d[i].atts) : Malformed(d[i].atts[j].value)

\* C3 as stated: a document with a malformed reference in any attribute
\* value of any element is never read successfully, and fails with Error::Xml.
C3_AnyAttribute ==
    (phase = "parse" /\ HasMalformedAttr(doc) /\ ~Running) => result = Some(Err(ErrXml))

TextKeys == {XmlBase, XmlLang, N("type")}
CategoryKeys == {N("term"), N("scheme"), N("label")}
GeneratorKeys == {N("uri"), N("version")}
LinkKeys == {N("href"), N("rel"), N("hreflang"), N("type"), N("title"), N("length")}
ContentKeys == {XmlBase, XmlLang, N("type"), N("src")}

IsPrefixed(name) == \E i \in 2..Len(name) : name[i] = ":" /\ name[1] # ":"

\* Whether the call fn decodes the attribute key of a start tag name it reads.
Decodes(fn, name, key) ==
    CASE fn = "read_from" ->
            /\ name = FeedTag
            /\ \/ key \in {XmlBase, XmlLang}
               \/ /\ Len(key) >= 2 /\ key[1] = "xmlns" /\ key[2] = ":"
                  /\ key # <<"xmlns", ":", "dc">>
      [] fn = "parse_extension_element" -> TRUE
      [] fn \in {"Feed", "Entry", "Source"} ->
            \/ name \in {N("title"), N("rights")} /\ key \in TextKeys
            \/ name = N("subtitle") /\ fn # "Entry" /\ key \in TextKeys
            \/ name = N("summary") /\ fn = "Entry" /\ key \in TextKeys
            \/ name = N("category") /\ key \in CategoryKeys
            \/ name = N("generator") /\ fn # "Entry" /\ key \in GeneratorKeys
            \/ name = N("link") /\ key \in LinkKeys
            \/ name = N("content") /\ fn = "Entry" /\ key \in ContentKeys
            \/ fn # "Source" /\ IsPrefixed(name)
      [] OTHER -> FALSE

IsTextConstruct(fn, name) ==
    \/ name \in {N("title"), N("rights")} /\ fn \in {"Feed", "Entry", "Source"}
    \/ name = N("subtitle") /\ fn \in {"Feed", "Source"}
    \/ name = N("summary") /\ fn = "Entry"

\* The first attribute of the tag that fails is a decoded one with a
\* malformed value: no text-construct type before it has an unknown value.
FirstFailureIsMalformed(fn, e) ==
    \E j \in 1..Len(e.atts) :
        /\ Decodes(fn, e.name, e.atts[j].key)
        /\ Malformed(e.atts[j].value)
        /\ \A h \in 1..(j - 1) :
              ~(/\ IsTextConstruct(fn, e.name)
                /\ e.atts[h].key = N("type")
                /\ ~Malformed(e.atts[h].value) /\ ~Unrecognized(e.atts[h].value)
                /\ e.atts[h].value \notin {N("text"), N("html"), N("xhtml")})

\* C3 as amended: when the parser reads a start tag whose first failing
\* attribute is one it decodes and has a malformed value, read_from returns
\* Error::Xml.
C3_DecodedAttribute ==
    [][(/\ Running
        /\ Top.fn \notin TextFns
        /\ Next1.ev.k = "Start"
        /\ FirstFailureIsMalformed(Top.fn, Next1.ev))
       => (result' = Some(Err(ErrXml)) /\ stack' = <<>>)]_vars

C3_Witness ==
    /\ result = Some(Err(ErrXml))
    /\ phase = "parse"
    /\ reader.pos > 1
    /\ doc[reader.pos - 1].k = "Start"
    /\ doc[reader.pos - 1].name = ExtChild
    /\ Len(reader.open) >= 5
    /\ \E j \in 1..Len(doc[reader.pos - 1].atts) :
            doc[reader.pos - 1].atts[j].value = <<"&", ";">>

\* C4: read_from passes over what precedes the first start tag; a first
\* start tag other than feed gives InvalidStartTag with nothing read past
\* it; a feed start tag hands the rest to Feed::from_xml.
C4_FirstStartTag ==
    LET i == FirstStart(doc)
    IN  /\ (Running /\ Top.fn = "read_from") => (i = 0 \/ reader.pos <= i)
        /\ (i # 0 /\ doc[i].name # FeedTag /\ result # None) =>
              /\ result = Some(Err(ErrInvalidStartTag))
              /\ reader.pos = i + 1
        /\ (i # 0 /\ doc[i].name = FeedTag /\ reader.pos > i) =>
              /\ result # Some(Err(ErrInvalidStartTag))
              /\ Running => stack[1].fn = "Feed"

C4_Witness ==
    /\ result = Some(Err(ErrInvalidStartTag))
    /\ FirstStart(doc) = MaxProlog + 1
    /\ Len(doc) > FirstStart(doc)

\* C5: an input with no start tag at all makes read_from return Error::Eof.
C5_NoStartTag ==
    (phase = "parse" /\ FirstStart(doc) = 0 /\ result # None) => result = Some(Err(ErrEof))

C5_Witness ==
    /\ result = Some(Err(ErrEof))
    /\ phase = "parse"
    /\ FirstStart(doc) = 0
    /\ Len(doc) >= 2

\* C6: when the text loops, the extension loop or the feed, entry, source or
\* person loop read Eof, read_from returns Error::Eof and nothing else.
C6_EofIsFatal ==
    [][(/\ Running
        /\ Top.fn \in LoopFns
        /\ reader.pend = None
        /\ reader.pos > Len(doc))
       => (result' = Some(Err(ErrEof)) /\ stack' = <<>>)]_vars

C6_Witness ==
    /\ result = Some(Err(ErrEof))
    /\ phase = "parse"
    /\ reader.pos > Len(doc)
    /\ Len(reader.open) >= 4

\* The End event a text reader called at index at must stop at: the pending
\* End of an expanded self-closing tag (here at - 1), else the matching End.
StopAt(at) ==
    IF at > 1 /\ doc[at - 1].k = "Empty" THEN at - 1 ELSE MatchFrom(doc, at, 0)

\* C7: while a text reader runs it has read nothing past the End event that
\* matches its element and its depth is the number of open inner elements;
\* when it returns, that End event is the last event read.
C7_StopsAtMatchingEnd ==
    [][(Running /\ Top.fn \in TextFns) =>
          LET m == StopAt(Top.at)
          IN  /\ m # 0 => (reader.pos <= m \/ (reader.pos = m + 1 /\ reader.pend # None))
              /\ Top.depth = OpenBetween(doc, Top.at, reader.pos - 1)
              /\ (result' = None /\ Len(stack') < Len(stack)) =>
                    /\ m # 0
                    /\ reader'.pos = m + 1
                    /\ reader'.pend = None]_vars

C7_Witness ==
    /\ Running /\ Top.fn = "Feed"
    /\ IsSingle(N("title"), <<>>)
    /\ reader.pos = Len(doc)
    /\ \E i \in 3..(Len(doc) - 2) : doc[i].k = "End" /\ doc[i + 1].k = "End"
    /\ Top.obj.title.value = PlainContent(SingleBody)

\* C8: the content atom_text returns for an element is the concatenation of
\* what its events contribute in plain mode; the unit test's example.
C8_PlainContent ==
    /\ (Running /\ Top.fn = "atom_text") =>
            Top.buf = PlainContent(SubSeq(doc, Top.at, reader.pos - 1))
    /\ (Succeeded /\ IsSingle(N("title"), <<>>)) =>
            result[1].val.title.value = PlainContent(SingleBody)
    /\ (Succeeded /\ doc = InFeed(El(N("title"), <<>>, PlainExample))) =>
            result[1].val.title.value =
                <<"Text with ampersand ", "&", " ", "<", "tag", ">", " and ",
                  "<", "inner", "/", ">", ".">>

C8_Witness ==
    /\ Succeeded
    /\ doc = InFeed(El(N("title"), <<>>, PlainExample))
    /\ result[1].val.title.value = PlainContent(PlainExample)

\* C9: the content atom_xhtml returns for an element is the concatenation of
\* what its events contribute in XHTML mode; the unit test's example.
C9_XhtmlContent ==
    /\ (Running /\ Top.fn = "atom_xhtml") =>
            Top.buf = XhtmlContent(SubSeq(doc, Top.at, reader.pos - 1))
    /\ (Succeeded /\ IsSingle(N("title"), XhtmlType)) =>
            result[1].val.title.value = XhtmlContent(SingleBody)
    /\ (Succeeded /\ doc = InFeed(El(N("title"), XhtmlType, XhtmlExample))) =>
            result[1].val.title.value =
                <<"<", "div", ">", "a", "<", "br", "/", ">", "&", "amp", ";", " ", "b",
                  "<", "/", "div", ">">>

C9_Witness ==
    /\ Succeeded
    /\ doc = InFeed(El(N("title"), XhtmlType, XhtmlExample))
    /\ result[1].val.title.value = XhtmlContent(XhtmlExample)

\* C10 as stated: the content returned for <icon>body</icon> is None when
\* the body's content is empty after trimming, and Some of it otherwise.
C10_NoneAfterTrim ==
    (Succeeded /\ IsSingle(N("icon"), <<>>)) =>
        result[1].val.icon =
            IF Trim(PlainContent(SingleBody)) = <<>> THEN None
            ELSE Some(PlainContent(SingleBody))

\* C10 as amended: the content returned is None exactly when the body's
\* content is the empty string, and Some of the untrimmed content otherwise.
C10_NoneWhenEmpty ==
    (Succeeded /\ IsSingle(N("icon"), <<>>)) =>
        result[1].val.icon =
            IF PlainContent(SingleBody) = <<>> THEN None
            ELSE Some(PlainContent(SingleBody))

C10_Witness ==
    /\ Succeeded
    /\ IsSingle(N("icon"), <<>>)
    /\ SingleBody = <<Text(N(" "))>>
    /\ result[1].val.icon = Some(N(" "))

\* C11: while atom_text or atom_xhtml scans, expand_empty_elements is off and
\* a self-closing tag of the body is read as one Empty event with no End
\* pending; every other call reads with it on, so that once a text reader
\* has returned the setting is on again, and a self-closing tag read then is
\* expanded into a Start with its End pending.
C11_ExpansionOffDuringScan ==
    [][/\ Running => (reader.expand <=> Top.fn \notin TextFns)
       /\ Succeeded => reader.expand
       /\ (/\ Running /\ reader.pend = None /\ reader.pos <= Len(doc)
           /\ doc[reader.pos].k = "Empty") =>
              IF Top.fn \in TextFns
              THEN /\ Next1.ev.k = "Empty"
                   /\ reader'.pend = None
                   /\ Len(stack') = Len(stack)
                   /\ stack'[Len(stack)].depth = Top.depth
              ELSE /\ Next1.ev.k = "Start"
                   /\ Next1.rd.pend = Some(doc[reader.pos].name)
       /\ (Running /\ Top.fn \in TextFns /\ Running' /\ Len(stack') < Len(stack)) =>
              reader'.expand]_vars

\* A title whose body is a self-closing tag has been read by atom_text, the
\* tag is in the value as one "<br .../>", and the feed loop goes on with
\* expansion on.
C11_Witness ==
    /\ Running /\ Top.fn = "Feed"
    /\ IsSingle(N("title"), <<>>)
    /\ Len(SingleBody) = 1 /\ SingleBody[1].k = "Empty"
    /\ reader.pos = Len(doc)
    /\ reader.expand
    /\ Top.obj.title.value = <<"<">> \o SingleBody[1].s \o <<"/", ">">>

\* The value of the type attribute of start tag e when that attribute is the
\* first of the attributes a text construct decodes (xml:base, xml:lang,
\* type) that is not accepted, and it unescapes to a value that is no type.
FirstBadType(e) ==
    LET Bad(j) ==
            /\ e.atts[j].key \in TextKeys
            /\ \/ ~unescape(e.atts[j].value).ok
               \/ /\ e.atts[j].key = N("type")
                  /\ unescape(e.atts[j].value).val \notin {N("text"), N("html"), N("xhtml")}
        J == {j \in 1..Len(e.atts) : Bad(j)}
    IN  IF J = {} THEN None
        ELSE LET j == CHOOSE j \in J : \A h \in J : j <= h
             IN  IF e.atts[j].key = N("type") /\ unescape(e.atts[j].value).ok
                 THEN Some(unescape(e.atts[j].value).val)
                 ELSE None

\* C12: when the parser reads the start tag of a text construct (title,
\* rights, subtitle, summary) whose type attribute unescapes to a value other
\* than "text", "html", "xhtml", read_from returns WrongAttribute with the
\* attribute name "type" and that unescaped value, and nothing else is read.
C12_UnknownTypeRejected ==
    [][/\ (/\ Running
           /\ Top.fn \notin TextFns
           /\ Next1.ev.k = "Start"
           /\ IsTextConstruct(Top.fn, Next1.ev.name)
           /\ FirstBadType(Next1.ev) # None) =>
              /\ result' = Some(Err([kind |-> "WrongAttribute",
                                     info |-> <<"type">> \o FirstBadType(Next1.ev)[1]]))
              /\ stack' = <<>>
              /\ reader'.pos = reader.pos + 1
       /\ (/\ phase = "parse" /\ ~Running
           /\ Len(doc) >= 2 /\ doc[1] = Start(FeedTag, <<>>)
           /\ doc[2].k = "Start"
           /\ doc[2].name \in {N("title"), N("rights"), N("subtitle")}
           /\ FirstBadType(doc[2]) # None) =>
              /\ result[1].val.kind = "WrongAttribute"
              /\ result[1].val.info = <<"type">> \o FirstBadType(doc[2])[1]]_vars

\* The summary of an entry has type="&amp;": the error carries the unescaped
\* value "&".
C12_Witness ==
    /\ phase = "parse"
    /\ result = Some(Err(ErrWrongAttribute(<<"&">>)))
    /\ reader.pos = 4
    /\ doc[3] = Start(N("summary"), <<Attr(N("type"), <<"&", "amp", ";">>)>>)

\* The type a start tag's attributes declare: the last type attribute, Text
\* when there is none.
DeclaredType(atts) ==
    LET J == {j \in 1..Len(atts) : atts[j].key = N("type")}
    IN  IF J = {} THEN "Text"
        ELSE LET j == CHOOSE j \in J : \A h \in J : h <= j
             IN  CASE atts[j].value = N("text") -> "Text"
                   [] atts[j].value = N("html") -> "Html"
                   [] atts[j].value = N("xhtml") -> "Xhtml"
                   [] OTHER -> "none"

\* C13: a text construct has the type its tag declares, Text without a type
\* attribute; its body is read by atom_xhtml exactly when that type is Xhtml
\* and by atom_text otherwise, so a body gives the same value under Text and
\* under Html; an empty body gives the value "" in a construct that is present.
C13_TextConstruct ==
    /\ (Running /\ Top.fn \in TextFns /\ Top.slot.conv = "text") =>
            /\ Top.obj.type = DeclaredType(doc[Top.at - 1].atts)
            /\ (Top.fn = "atom_xhtml") <=> (Top.obj.type = "Xhtml")
    /\ \A atts \in {<<>>, HtmlType, XhtmlType} :
            /\ (Succeeded /\ IsSingle(N("title"), atts)) =>
                    /\ result[1].val.title.type = DeclaredType(atts)
                    /\ result[1].val.title.value =
                            IF atts = XhtmlType THEN XhtmlContent(SingleBody)
                            ELSE PlainContent(SingleBody)
            /\ (Succeeded /\ IsSingle(N("subtitle"), atts) /\ SingleBody = <<>>) =>
                    /\ result[1].val.subtitle # None
                    /\ result[1].val.subtitle[1].value = <<>>
                    /\ result[1].val.subtitle[1].type = DeclaredType(atts)

\* An Html title with markup and a reference in its body has been read with
\* the plain-mode value.
C13_Witness ==
    /\ Succeeded
    /\ IsSingle(N("title"), HtmlType)
    /\ SingleBody = El(N("b"), <<>>, <<>>) \o <<GeneralRef("amp")>>
    /\ result[1].val.title.type = "Html"
    /\ result[1].val.title.value = <<"<", "b", ">", "<", "/", "b", ">", "&">>

\* The title element is what write_to writes after the feed's start tag:
\* items 4 to 6 of the output.
TitleWritten == written # None /\ Len(output) >= 6

\* C14: the start tag of a written text construct carries xml:base if the
\* construct has a base, then xml:lang if it has a lang, then type if its
\* type is not Text, and nothing else; the text written is the escaped value
\* for Text and Html and the value itself for Xhtml; an Xhtml construct that
\* the parser read, written and read again, is the same construct.
C14_TextSerialized ==
    /\ TitleWritten =>
          LET text == written[1].title
              tag == output[4]
              keys == [j \in 1..Len(tag.atts) |-> tag.atts[j].key]
          IN  /\ tag.k = "Start" /\ tag.name = N("title")
              /\ keys = (IF text.base # None THEN <<XmlBase>> ELSE <<>>)
                        \o (IF text.lang # None THEN <<XmlLang>> ELSE <<>>)
                        \o (IF text.type # "Text" THEN <<N("type")>> ELSE <<>>)
              /\ \A j \in 1..Len(tag.atts) :
                    tag.atts[j].value =
                        CASE keys[j] = XmlBase -> escape(text.base[1])
                          [] keys[j] = XmlLang -> escape(text.lang[1])
                          [] keys[j] = N("type") ->
                                IF text.type = "Html" THEN N("html") ELSE N("xhtml")
              /\ output[5] = WText(IF text.type = "Xhtml" THEN text.value
                                   ELSE escape(text.value))
              /\ output[6] = End(N("title"))
    /\ (phase = "reparse" /\ Succeeded /\ written[1].title.type = "Xhtml") =>
            result[1].val.title = written[1].title

\* The Xhtml title of the unit test, with markup and an escaped "&", has been
\* read, written as it is and read again.
C14_Witness ==
    /\ phase = "reparse" /\ Succeeded
    /\ written[1].title.type = "Xhtml"
    /\ written[1].title.value =
            <<"<", "div", ">", "a", "<", "br", "/", ">", "&", "amp", ";", " ", "b",
              "<", "/", "div", ">">>
    /\ output[4] = Start(N("title"), XhtmlType)
    /\ output[5] = WText(written[1].title.value)
    /\ result[1].val.title = written[1].title

\* The element names the feed loop and the entry loop handle themselves.
CoreNames(fn) ==
    IF fn = "Feed"
    THEN {N(x) : x \in {"title", "id", "updated", "author", "category", "contributor",
                        "generator", "icon", "link", "logo", "rights", "subtitle",
                        "entry"}}
    ELSE {N(x) : x \in {"id", "title", "updated", "author", "category", "contributor",
                        "link", "published", "rights", "source", "summary", "content"}}

\* The parts of a name before and after its first ":".
Colon(name) == CHOOSE i \in 1..Len(name) : name[i] = ":" /\ \A h \in 1..(i - 1) : name[h] # ":"
Prefix(name) == SubSeq(name, 1, Colon(name) - 1)
Local(name) == IF \E i \in 1..Len(name) : name[i] = ":"
               THEN SubSeq(name, Colon(name) + 1, Len(name)) ELSE name

\* The list at keys (ns, name) of an extension map, empty when there is none.
ListAt(m, ns, name) ==
    IF ns \in DOMAIN m /\ name \in DOMAIN m[ns] THEN m[ns][name] ELSE <<>>

\* The list at key name of a children map.
ChildrenAt(m, name) == IF name \in DOMAIN m THEN m[name] ELSE <<>>

\* The attribute map of a start tag: each key with its last unescaped value.
AttrMap(atts) ==
    [k \in {atts[j].key : j \in 1..Len(atts)} |->
        LET j == CHOOSE j \in 1..Len(atts) :
                    atts[j].key = k /\ \A h \in (j + 1)..Len(atts) : atts[h].key # k
        IN  unescape(atts[j].value).val]

AttsDecode(atts) == \A j \in 1..Len(atts) : unescape(atts[j].value).ok

\* C15: the feed loop and the entry loop hand a start tag to the extension
\* parser exactly when its name is prefix:local with a non-empty prefix and
\* is no core name of that loop; the node the extension parser returns is
\* appended at extensions[prefix][local] with the tag's name and attributes,
\* and no other field of the feed or entry changes; the example of the test.
C15_ExtensionDispatch ==
    [][/\ (/\ Running /\ Top.fn \in {"Feed", "Entry"}
           /\ Next1.ev.k = "Start" /\ AttsDecode(Next1.ev.atts)) =>
              ((/\ Running' /\ Len(stack') = Len(stack) + 1
                /\ stack'[Len(stack')].fn = "parse_extension_element")
               <=> (/\ IsPrefixed(Next1.ev.name)
                    /\ Next1.ev.name \notin CoreNames(Top.fn)))
       /\ (/\ Running /\ Top.fn = "parse_extension_element"
           /\ Len(stack) >= 2 /\ stack[Len(stack) - 1].fn \in {"Feed", "Entry"}
           /\ Running' /\ Len(stack') = Len(stack) - 1) =>
              LET tag == doc[Top.at - 1]
                  before == stack[Len(stack) - 1].obj
                  after == stack'[Len(stack')].obj
                  old == ListAt(before.extensions, Prefix(tag.name), Local(tag.name))
                  new == ListAt(after.extensions, Prefix(tag.name), Local(tag.name))
              IN  /\ new = Append(old, new[Len(new)])
                  /\ new[Len(new)].name = tag.name
                  /\ new[Len(new)].attrs = AttrMap(tag.atts)
                  /\ \A fld \in (DOMAIN before) \ {"extensions"} :
                        after[fld] = before[fld]
       /\ \A inner \in BOOLEAN :
            LET body == El(N("title"), <<>>, <<Text(N("a"))>>)
                        \o El(<<"ext", ":", "title">>, <<Attr(N("type"), N("text"))>>,
                              <<Text(N("Title"))>>)
                node == [name |-> <<"ext", ":", "title">>,
                         value |-> Some(N("Title")),
                         attrs |-> [k \in {N("type")} |-> N("text")],
                         children |-> EmptyMap]
            IN  (/\ phase = "parse" /\ Succeeded
                 /\ doc = InFeed(IF inner THEN El(N("entry"), <<>>, body) ELSE body)) =>
                    LET x == IF inner THEN result[1].val.entries[1] ELSE result[1].val
                    IN  /\ x.extensions = [ns \in {N("ext")} |->
                                              [nm \in {N("title")} |-> <<node>>]]
                        /\ x.title = [TextDefault EXCEPT !.value = N("a")]]_vars

\* An entry with the title "a" and the extension ext:title of the test has
\* been read.
C15_Witness ==
    /\ phase = "parse" /\ Succeeded
    /\ Len(result[1].val.entries) = 1
    /\ result[1].val.entries[1].title.value = N("a")
    /\ N("ext") \in DOMAIN result[1].val.entries[1].extensions
    /\ N("title") \in DOMAIN result[1].val.entries[1].extensions[N("ext")]
    /\ result[1].val.entries[1].extensions[N("ext")][N("title")][1].value = Some(N("Title"))

\* The start tags of the elements directly inside the element whose content
\* is d[i..j], in document order.
RECURSIVE DirectTags(_, _, _, _)
DirectTags(d, i, j, depth) ==
    IF i > j THEN <<>>
    ELSE CASE d[i].k = "Start" ->
                (IF depth = 0 THEN <<d[i]>> ELSE <<>>) \o DirectTags(d, i + 1, j, depth + 1)
           [] d[i].k = "End" -> DirectTags(d, i + 1, j, depth - 1)
           [] d[i].k = "Empty" ->
                (IF depth = 0 THEN <<d[i]>> ELSE <<>>) \o DirectTags(d, i + 1, j, depth)
           [] OTHER -> DirectTags(d, i + 1, j, depth)

\* The qualified names of those of the tags that belong under a key.
RECURSIVE NamesUnder(_, _, _)
NamesUnder(tags, top, key) ==
    IF tags = <<>> THEN <<>>
    ELSE LET n == Head(tags).name
             mine == IF top THEN IsPrefixed(n) /\ <<Prefix(n), Local(n)>> = key
                     ELSE Local(n) = key
         IN  (IF mine THEN <<n>> ELSE <<>>) \o NamesUnder(Tail(tags), top, key)

NamesOf(list) == [i \in 1..Len(list) |-> list[i].name]

RECURSIVE DirectText(_, _, _, _)
DirectText(d, i, j, depth) ==
    IF i > j THEN <<>>
    ELSE CASE d[i].k = "Start" -> DirectText(d, i + 1, j, depth + 1)
           [] d[i].k = "End" -> DirectText(d, i + 1, j, depth - 1)
           [] d[i].k \in {"Text", "CData", "GeneralRef"} ->
                (IF depth = 0 THEN PlainPiece(d[i]) ELSE <<>>)
                \o DirectText(d, i + 1, j, depth)
           [] OTHER -> DirectText(d, i + 1, j, depth)

\* s from its first to its last atom that is not white space.
Trimmed(s) ==
    LET I == {i \in 1..Len(s) : s[i] \notin WhiteSpace}
    IN  IF I = {} THEN <<>>
        ELSE SubSeq(s, CHOOSE i \in I : \A h \in I : i <= h,
                       CHOOSE i \in I : \A h \in I : h <= i)

\* The node a returning extension parser has added to its parent.
AddedNode ==
    LET tag == doc[Top.at - 1]
        after == stack'[Len(stack')].obj
        list == IF stack[Len(stack) - 1].fn = "parse_extension_element"
                THEN ChildrenAt(after.children, Local(tag.name))
                ELSE ListAt(after.extensions, Prefix(tag.name), Local(tag.name))
    IN  list[Len(list)]

\* C17: the text an extension node has collected is the text, CDATA and
\* resolved references directly inside its element so far, in document
\* order, with nothing from inside its child elements; the value of the node
\* it returns is None when that text trimmed is empty and Some of the
\* trimmed text otherwise.
C17_ExtensionValue ==
    [][/\ (Running /\ Top.fn = "parse_extension_element") =>
              Top.buf = DirectText(doc, Top.at, reader.pos - 1, 0)
       /\ (/\ Running /\ Top.fn = "parse_extension_element"
           /\ Running' /\ Len(stack') = Len(stack) - 1) =>
              AddedNode.value =
                  IF Trimmed(Top.buf) = <<>> THEN None ELSE Some(Trimmed(Top.buf))]_vars

\* The extension <ext:t> a<![CDATA[<b]]><ext:child>x</ext:child>&lt; <![CDATA[ ]]></ext:t>
\* has been read with the value "a<b<"; its child has the value "x".
C17_Witness ==
    /\ phase = "parse" /\ Succeeded
    /\ N("ext") \in DOMAIN result[1].val.extensions
    /\ N("t") \in DOMAIN result[1].val.extensions[N("ext")]
    /\ LET t == result[1].val.extensions[N("ext")][N("t")][1]
       IN  /\ t.value = Some(<<"a", "<", "b", "<">>)
           /\ N("child") \in DOMAIN t.children
           /\ t.children[N("child")][1].value = Some(N("x"))

\* The extension maps of a feed: its own and those of its entries.
ExtensionsOf(feed) ==
    <<feed.extensions>> \o [i \in 1..Len(feed.entries) |-> feed.entries[i].extensions]

\* A feed without link elements, of which the parser read an extension.
WrittenExtensions ==
    /\ phase = "reparse"
    /\ written[1].links = <<>>
    /\ \A i \in 1..Len(written[1].entries) : written[1].entries[i].links = <<>>
    /\ \E i \in 1..Len(ExtensionsOf(written[1])) : ExtensionsOf(written[1])[i] # EmptyMap

\* C18: a feed with extension trees that the parser produced, written and
\* parsed again, is read successfully with the same extension trees: the
\* same names, attributes, children under the same keys and values.
C18_ExtensionRoundTrip ==
    (WrittenExtensions /\ ~Running) =>
        /\ Succeeded
        /\ ExtensionsOf(result[1].val) = ExtensionsOf(written[1])

\* The indices of the start tags directly inside the element whose content
\* is o[i..j].
RECURSIVE DirectIdx(_, _, _, _)
DirectIdx(o, i, j, depth) ==
    IF i > j THEN <<>>
    ELSE CASE o[i].k = "Start" ->
                (IF depth = 0 THEN <<i>> ELSE <<>>) \o DirectIdx(o, i + 1, j, depth + 1)
           [] o[i].k = "End" -> DirectIdx(o, i + 1, j, depth - 1)
           [] o[i].k = "Empty" ->
                (IF depth = 0 THEN <<i>> ELSE <<>>) \o DirectIdx(o, i + 1, j, depth)
           [] OTHER -> DirectIdx(o, i + 1, j, depth)

\* The keys S as the sequence in byte order.
Ordered(S) ==
    CHOOSE q \in [1..Cardinality(S) -> S] :
        \A a, b \in 1..Cardinality(S) : a < b => KeyLess(q[a], q[b])

\* The lists of a map one after the other, the keys in byte order.
RECURSIVE Flatten(_, _)
Flatten(m, keys) ==
    IF keys = <<>> THEN <<>> ELSE m[Head(keys)] \o Flatten(m, Tail(keys))

\* The nodes of an extension map in the order of the two nested loops.
RECURSIVE TopNodes(_, _)
TopNodes(m, keys) ==
    IF keys = <<>> THEN <<>>
    ELSE Flatten(m[Head(keys)], Ordered(DOMAIN m[Head(keys)])) \o TopNodes(m, Tail(keys))

\* The items of o from index i on are the serialization of node: the start
\* tag, the text item iff there is a value, the children one after the
\* other, the end tag.
RECURSIVE SerializedAt(_, _, _)
SerializedAt(o, i, node) ==
    LET m == MatchFrom(o, i + 1, 0)
        kids == Flatten(node.children, Ordered(DOMAIN node.children))
        idx == DirectIdx(o, i + 1, m - 1, 0)
        first == IF node.value = None THEN i + 1 ELSE i + 2
    IN  /\ o[i].k = "Start" /\ o[i].name = node.name
        /\ [j \in 1..Len(o[i].atts) |-> o[i].atts[j].key] = Ordered(DOMAIN node.attrs)
        /\ \A j \in 1..Len(o[i].atts) : o[i].atts[j].value = node.attrs[o[i].atts[j].key]
        /\ m # 0 /\ o[m] = End(node.name)
        /\ node.value # None => o[i + 1] = WText(escape(node.value[1]))
        /\ Len(idx) = Len(kids)
        /\ \A j \in 1..Len(kids) :
              /\ idx[j] = IF j = 1 THEN first ELSE MatchFrom(o, idx[j - 1] + 1, 0) + 1
              /\ SerializedAt(o, idx[j], kids[j])
        /\ m = IF kids = <<>> THEN first ELSE MatchFrom(o, idx[Len(idx)] + 1, 0) + 1

\* The last elements inside o[i..j] are the serializations of the nodes of
\* the extension map, in map order.
ExtensionsAtEnd(o, i, j, extensions) ==
    LET nodes == TopNodes(extensions, Ordered(DOMAIN extensions))
        idx == DirectIdx(o, i, j, 0)
        skip == Len(idx) - Len(nodes)
    IN  /\ skip >= 0
        /\ \A h \in 1..Len(nodes) : SerializedAt(o, idx[skip + h], nodes[h])
        /\ nodes # <<>> => MatchFrom(o, idx[Len(idx)] + 1, 0) = j

\* C19: in the output of write_to every extension node of the feed and of
\* its entries is written as its start tag with the qualified name and the
\* attributes in key order, then one escaped text item iff it has a value,
\* then its children list by list in key order and in list order, each one
\* complete before the next, then the end tag of the same name.
C19_ExtensionSerialized ==
    (written # None /\ output # <<>>) =>
        LET o == output
            feed == written[1]
            entries == {i \in 4..Len(o) : o[i] = Start(N("entry"), <<>>)}
            EntryIdx == [n \in 1..Cardinality(entries) |->
                            CHOOSE i \in entries :
                                Cardinality({h \in entries : h < i}) = n - 1]
        IN  /\ MatchFrom(o, 4, 0) = Len(o)
            /\ ExtensionsAtEnd(o, 4, Len(o) - 1, feed.extensions)
            /\ Cardinality(entries) = Len(feed.entries)
            /\ \A n \in 1..Len(feed.entries) :
                  ExtensionsAtEnd(o, EntryIdx[n] + 1, MatchFrom(o, EntryIdx[n] + 1, 0) - 1,
                                  feed.entries[n].extensions)

\* The node of ext:parent has been written: attributes a, k in key order,
\* then the child under "b" before those under "child".
C19_Witness ==
    /\ phase = "reparse"
    /\ \E i \in 1..(Len(output) - 2) :
          /\ output[i] = Start(<<"ext", ":", "parent">>,
                               <<Attr(N("a"), N("b")), Attr(N("k"), N("v"))>>)
          /\ output[i + 1] = Start(<<"x", ":", "b">>, <<>>)
          /\ output[i + 2] = End(<<"x", ":", "b">>)
          /\ output[i + 3] = Start(ExtChild, <<>>)
          /\ output[i + 4] = WText(N("a"))

\* The unescaped value of the last attribute of atts with the key.
LastValue(atts, key) ==
    LET j == CHOOSE j \in 1..Len(atts) :
                atts[j].key = key /\ \A h \in (j + 1)..Len(atts) : atts[h].key # key
    IN  unescape(atts[j].value).val

\* The keys of atts that declare a namespace prefix other than dc.
PrefixKeys(atts) ==
    {atts[j].key : j \in {h \in 1..Len(atts) :
                            /\ Len(atts[h].key) >= 2
                            /\ atts[h].key[1] = "xmlns" /\ atts[h].key[2] = ":"
                            /\ atts[h].key # <<"xmlns", ":", "dc">>}}

\* C20: the feed read_from returns has in namespaces one entry for each
\* prefix declared by an xmlns:<prefix> attribute of the feed tag other
\* than dc, with the unescaped value of that attribute, and no other entry;
\* base and lang are the unescaped values of xml:base and xml:lang, None
\* without them; a feed tag whose xml:base, xml:lang and xmlns:<prefix>
\* values other than dc's decode is accepted whatever xmlns holds.
C20_RootAttributes ==
    /\ Succeeded =>
          LET atts == doc[FirstStart(doc)].atts
              keys == {atts[j].key : j \in 1..Len(atts)}
              feed == result[1].val
          IN  /\ DOMAIN feed.namespaces = {SubSeq(k, 3, Len(k)) : k \in PrefixKeys(atts)}
              /\ \A k \in PrefixKeys(atts) :
                    feed.namespaces[SubSeq(k, 3, Len(k))] = LastValue(atts, k)
              /\ feed.base = IF XmlBase \in keys THEN Some(LastValue(atts, XmlBase)) ELSE None
              /\ feed.lang = IF XmlLang \in keys THEN Some(LastValue(atts, XmlLang)) ELSE None
    /\ (/\ phase = "parse" /\ ~Running
        /\ Len(doc) = 2 /\ doc[1].k = "Start" /\ doc[1].name = FeedTag /\ doc[2] = End(FeedTag)) =>
          (Succeeded <=>
              \A j \in 1..Len(doc[1].atts) :
                  (doc[1].atts[j].key \in PrefixKeys(doc[1].atts) \cup {XmlBase, XmlLang})
                      => unescape(doc[1].atts[j].value).ok)

\* <feed xmlns:dc="&;" xmlns="&;" xmlns:x="&amp;"></feed> has been read:
\* the only namespace is x with the value "&".
C20_Witness ==
    /\ phase = "parse" /\ Succeeded
    /\ doc[1].atts = <<Attr(<<"xmlns", ":", "dc">>, <<"&", ";">>),
                       Attr(N("xmlns"), <<"&", ";">>),
                       Attr(<<"xmlns", ":", "x">>, <<"&", "amp", ";">>)>>
    /\ result[1].val.namespaces = [k \in {N("x")} |-> N("&")]
    /\ result[1].val.base = None

\* n times the name.
Rep(name, n) == [j \in 1..n |-> name]

\* The name iff the optional field is present.
Opt(name, opt) == IF opt = None THEN <<>> ELSE <<name>>

\* The names of the child elements of a written feed, from its fields.
ChildNames(feed) ==
    LET nodes == TopNodes(feed.extensions, Ordered(DOMAIN feed.extensions))
    IN  <<N("title"), N("id"), N("updated")>>
        \o Rep(N("author"), Len(feed.authors))
        \o Rep(N("category"), Len(feed.categories))
        \o Rep(N("contributor"), Len(feed.contributors))
        \o Opt(N("generator"), feed.generator) \o Opt(N("icon"), feed.icon)
        \o Rep(N("link"), Len(feed.links))
        \o Opt(N("logo"), feed.logo) \o Opt(N("rights"), feed.rights)
        \o Opt(N("subtitle"), feed.subtitle)
        \o Rep(N("entry"), Len(feed.entries))
        \o [j \in 1..Len(nodes) |-> nodes[j].name]

\* C21: the output of write_to is the declaration, one newline, the feed
\* start tag with xmlns, then one xmlns:<prefix> per namespace in key order,
\* then xml:base and xml:lang when present; then the children title, id,
\* updated (always), authors, categories, contributors, generator, icon,
\* links, logo, rights, subtitle, entries (optional ones only when present,
\* lists in list order), then the extension elements in map order, then the
\* feed end tag.
C21_WriteOrder ==
    (written # None /\ output # <<>>) =>
        LET o == output
            feed == written[1]
            idx == DirectIdx(o, 4, Len(o) - 1, 0)
            keys == Ordered(DOMAIN feed.namespaces)
            na == Len(feed.authors)
            nc == Len(feed.categories)
            nb == Len(feed.contributors)
            opt1 == Len(Opt(1, feed.generator)) + Len(Opt(1, feed.icon))
            nl == Len(feed.links)
            opt2 == Len(Opt(1, feed.logo)) + Len(Opt(1, feed.rights))
                    + Len(Opt(1, feed.subtitle))
        IN  /\ o[1] = Decl /\ o[2] = WText(<<"\n">>)
            /\ o[3].k = "Start" /\ o[3].name = FeedTag
            /\ [j \in 1..Len(o[3].atts) |-> o[3].atts[j].key]
                 = <<N("xmlns")>> \o [j \in 1..Len(keys) |-> <<"xmlns", ":">> \o keys[j]]
                   \o Opt(XmlBase, feed.base) \o Opt(XmlLang, feed.lang)
            /\ \A j \in 1..Len(keys) : o[3].atts[j + 1].value = feed.namespaces[keys[j]]
            /\ MatchFrom(o, 4, 0) = Len(o) /\ o[Len(o)] = End(FeedTag)
            /\ [j \in 1..Len(idx) |-> o[idx[j]].name] = ChildNames(feed)
            /\ \A j \in 1..na : o[idx[3 + j] + 2] = WText(feed.authors[j].name)
            /\ \A j \in 1..nc :
                  o[idx[3 + na + j]].atts[1].value = escape(feed.categories[j].term)
            /\ \A j \in 1..nb :
                  o[idx[3 + na + nc + j] + 2] = WText(feed.contributors[j].name)
            /\ \A j \in 1..nl :
                  o[idx[3 + na + nc + nb + opt1 + j]].atts[1].value
                    = escape(feed.links[j].href)
            /\ \A j \in 1..Len(feed.entries) :
                  o[idx[3 + na + nc + nb + opt1 + nl + opt2 + j] + 5]
                    = WText(feed.entries[j].id)

\* A feed with two of every list, every optional field and two extension
\* namespaces has been written.
C21_Witness ==
    /\ written # None /\ output # <<>>
    /\ Len(written[1].authors) = 2 /\ Len(written[1].categories) = 2
    /\ Len(written[1].contributors) = 2 /\ Len(written[1].links) = 2
    /\ Len(written[1].entries) = 2
    /\ written[1].authors[1] # written[1].authors[2]
    /\ written[1].generator # None /\ written[1].icon # None
    /\ written[1].logo # None /\ written[1].rights # None
    /\ written[1].subtitle # None
    /\ written[1].base # None /\ written[1].lang # None
    /\ Cardinality(DOMAIN written[1].namespaces) = 2
    /\ Cardinality(DOMAIN written[1].extensions) = 2


\* C22: every non-XHTML text written by write_to is XML-escaped: in the
\* output the text items of the feed's id, first author's name, generator
\* and icon are the escaped field values, and a successful re-read of the
\* output gives back the same id, generator value and icon.
C22_EscapedOnWrite ==
    (written # None /\ output # <<>>) =>
        LET o == output
            feed == written[1]
            idx == DirectIdx(o, 4, Len(o) - 1, 0)
            lists == Len(feed.authors) + Len(feed.categories) + Len(feed.contributors)
            gen == 3 + lists + 1
            icon == 3 + lists + Len(Opt(1, feed.generator)) + 1
        IN  /\ o[idx[2] + 1] = WText(escape(feed.id))
            /\ feed.authors # <<>> => o[idx[4] + 2] = WText(escape(feed.authors[1].name))
            /\ feed.generator # None =>
                  o[idx[gen] + 1] = WText(escape(feed.generator[1].value))
            /\ feed.icon # None => o[idx[icon] + 1] = WText(escape(feed.icon[1]))
            /\ Succeeded =>
                  /\ result[1].val.id = feed.id
                  /\ feed.generator # None =>
                        /\ result[1].val.generator # None
                        /\ result[1].val.generator[1].value = feed.generator[1].value
                  /\ result[1].val.icon = feed.icon

\* The record that holds the timestamps of a site in a parsed feed.
DateSite(site, feed) ==
    CASE site = "feed" -> feed
      [] site = "entry" -> feed.entries[1]
      [] site = "source" -> feed.entries[1].source[1]

\* The timestamp a date element with this body gives: the date, the fallback
\* for an empty body.
DateOf(body, fallback) == IF body = <<>> THEN fallback ELSE Some(DateTable[PlainContent(body)])

\* C23: under feed, entry and source an absent or empty updated element
\* gives updated = 1970-01-01T00:00:00Z, an entry's absent or empty published
\* gives none, a body that is a date gives that date, and a non-empty body
\* that is not a date makes read_from fail with WrongDatetime of that text.
C23_Timestamps ==
    /\ \A site \in {"feed", "entry", "source"} :
          (phase = "parse" /\ result # None /\ doc = Under(site, <<>>)) =>
              /\ Succeeded
              /\ DateSite(site, result[1].val).updated = default_fixed_datetime
              /\ site = "entry" => DateSite(site, result[1].val).published = None
    /\ \A sn \in {<<"feed", N("updated")>>, <<"entry", N("updated")>>,
                  <<"entry", N("published")>>, <<"source", N("updated")>>} :
       \A first \in {N("updated"), N("published")} :
       \A given \in BOOLEAN :
       \A body \in DateBodies :
          (/\ phase = "parse" /\ result # None
           /\ sn[1] # "entry" => first = N("updated")
           /\ doc = Under(sn[1], (IF given THEN El(first, <<>>, <<Text(GoodDate)>>)
                                  ELSE <<>>) \o El(sn[2], <<>>, body))) =>
              IF body # <<>> /\ PlainContent(body) \notin DOMAIN DateTable
              THEN result[1] = Err(ErrWrongDatetime(PlainContent(body)))
              ELSE LET rec == DateSite(sn[1], result[1].val)
                       before == IF given THEN Some("2017-06-03T15:15:44-05:00")
                                 ELSE None
                   IN  /\ Succeeded
                       /\ Some(rec.updated) =
                            IF sn[2] = N("updated")
                            THEN DateOf(body, Some(default_fixed_datetime))
                            ELSE IF given /\ first = N("updated") THEN before
                            ELSE Some(default_fixed_datetime)
                       /\ sn[1] = "entry" =>
                            rec.published =
                              IF sn[2] = N("published") THEN DateOf(body, None)
                              ELSE IF first = N("published") THEN before ELSE None

\* An entry whose published element holds text that is not a date has made
\* read_from fail with WrongDatetime of that text.
C23_Witness ==
    /\ phase = "parse"
    /\ doc = Under("entry", El(N("published"), <<>>, <<Text(N("a")), GeneralRef("amp")>>))
    /\ result = Some(Err(ErrWrongDatetime(<<"a", "&">>)))

\* The value a link attribute gives: the unescaped value of the last
\* attribute with this key, none without one.
LinkAttr(atts, key) ==
    IF \E j \in 1..Len(atts) : atts[j].key = key THEN Some(LastValue(atts, key)) ELSE None

\* C24: a link element under feed, entry or source whose recognized
\* attributes decode is parsed into a link with href "" and rel "alternate"
\* unless the attribute is present, hreflang, type, title and length none
\* unless present, each attribute present giving its unescaped value;
\* attributes with other keys change nothing.
C24_LinkAttributes ==
    \A site \in {"feed", "entry", "source"} :
        LET at == CASE site = "feed" -> 2 [] site = "entry" -> 3 [] site = "source" -> 4
        IN  (/\ phase = "parse" /\ result # None
             /\ Len(doc) > at /\ doc[at].k = "Empty"
             /\ doc = Under(site, <<Empty(N("link"), doc[at].atts)>>)) =>
                LET atts == doc[at].atts
                    links == DateSite(site, result[1].val).links
                IN  /\ Succeeded
                    /\ Len(links) = 1
                    /\ links[1].href = unwrap_or_default(LinkAttr(atts, N("href")))
                    /\ links[1].rel = IF LinkAttr(atts, N("rel")) = None THEN N("alternate")
                                      ELSE LinkAttr(atts, N("rel"))[1]
                    /\ links[1].hreflang = LinkAttr(atts, N("hreflang"))
                    /\ links[1].mime_type = LinkAttr(atts, N("type"))
                    /\ links[1].title = LinkAttr(atts, N("title"))
                    /\ links[1].length = LinkAttr(atts, N("length"))

\* <link foo="&;" title="&lt;"/> under source has been read: href "",
\* rel "alternate", title "<".
C24_Witness ==
    /\ phase = "parse" /\ Succeeded
    /\ doc = Under("source", <<Empty(N("link"),
                                     <<Attr(N("foo"), <<"&", ";">>),
                                       Attr(N("title"), <<"&", "lt", ";">>)>>)>>)
    /\ result[1].val.entries[1].source[1].links =
          <<[href |-> <<>>, rel |-> N("alternate"), hreflang |-> None,
             mime_type |-> None, title |-> Some(<<"<">>), length |-> None]>>

\* The feed is one entry that holds a content element and nothing else.
ContentOnly(feed) ==
    /\ Len(feed.entries) = 1
    /\ feed.entries[1].content # None
    /\ feed = [FeedDefault EXCEPT
                  !.entries = <<[EntryDefault EXCEPT
                                    !.content = feed.entries[1].content]>>]

\* C25: the content element of an entry whose attributes decode is parsed
\* into content_type = the
\* unescaped value of its type attribute (none without one), src = the
\* value of src, and value = the body read in XHTML mode exactly when
\* content_type is "xhtml" and in plain mode otherwise, none when that is the
\* empty string; written and read back, the content is equal.
C25_Content ==
    /\ (/\ phase = "parse" /\ result # None
        /\ Len(doc) >= 5 /\ doc[3].k \in {"Start", "Empty"} /\ doc[3].name = N("content")
        /\ \A j \in 1..Len(doc[3].atts) :
              doc[3].atts[j].key \in ContentKeys => unescape(doc[3].atts[j].value).ok
        /\ doc = Under("entry", IF doc[3].k = "Empty" THEN <<doc[3]>>
                                ELSE El(N("content"), doc[3].atts,
                                        SubSeq(doc, 4, Len(doc) - 3)))) =>
            LET atts == doc[3].atts
                body == IF doc[3].k = "Empty" THEN <<>> ELSE SubSeq(doc, 4, Len(doc) - 3)
                content == result[1].val.entries[1].content
                read == IF LinkAttr(atts, N("type")) = Some(N("xhtml"))
                        THEN XhtmlContent(body) ELSE PlainContent(body)
            IN  /\ Succeeded
                /\ content # None
                /\ content[1].content_type = LinkAttr(atts, N("type"))
                /\ content[1].src = LinkAttr(atts, N("src"))
                /\ content[1].value = IF read = <<>> THEN None ELSE Some(read)
                /\ content[1].value # Some(<<>>)
    /\ (phase = "reparse" /\ result # None /\ ContentOnly(written[1])) =>
            /\ Succeeded
            /\ result[1].val.entries[1].content = written[1].entries[1].content

\* <content type="XHTML"><b k="v">a</b></content> has been read in plain
\* mode, written and read back with the same content.
C25_Witness ==
    /\ phase = "reparse" /\ Succeeded
    /\ ContentOnly(written[1])
    /\ written[1].entries[1].content[1].content_type = Some(N("XHTML"))
    /\ written[1].entries[1].content[1].value
         = Some(<<"<", "b", " ", "k", "=", "\"", "v", "\"", ">", "a", "<", "/", "b", ">">>)
    /\ result[1].val.entries[1].content = written[1].entries[1].content

\* The elements the reader has opened and not closed; the End event it owes
\* for an expanded empty tag counts as an open element.
OpenElements == reader.open \o (IF reader.pend = None THEN <<>> ELSE <<reader.pend[1]>>)

\* C26: whenever the feed, entry or source loop is about to read its next
\* event, every element a sub-parser was called for has been read up to its
\* own end tag: the elements still open in the reader are exactly the
\* enclosing ones (feed; feed, entry; feed, entry, source), and when
\* read_from returns a feed the end tag of the feed element has been read.
C26_ReaderAfterElement ==
    /\ (Running /\ Top.fn \in {"Feed", "Entry", "Source"}) =>
          OpenElements = CASE Top.fn = "Feed" -> <<FeedTag>>
                           [] Top.fn = "Entry" -> <<FeedTag, N("entry")>>
                           [] Top.fn = "Source" -> <<FeedTag, N("entry"), N("source")>>
    /\ (Succeeded /\ phase = "parse") => OpenElements = <<>>

\* What the reader has left to deliver: the events of the input not yet
\* read, and the End event it owes for an expanded empty tag.
Remaining == 2 * (Len(doc) + 1 - reader.pos) + (IF reader.pend = None THEN 0 ELSE 1)

\* C27: every iteration of a loop of read_from (root scan, feed, entry,
\* source, person, extension, text content) either takes an event from the
\* reader or ends the call, and a call that has started ends, with a feed or
\* with an error.
C27_Terminates ==
    /\ [][Running => (Remaining' < Remaining \/ ~Running')]_vars
    /\ Running ~> (~Running /\ result # None)

\* read_from has reached the end of a truncated document inside an
\* extension element of an entry and has returned the Eof error.
C27_Witness ==
    /\ phase = "parse" /\ ~Running
    /\ result = Some(Err(ErrEof))
    /\ reader.pos = Len(doc) + 1 /\ Len(doc) > 20
    /\ \E i \in 1..Len(doc) : doc[i].k = "Start" /\ doc[i].name = ExtChild

\* C28: a feed that read_from returned, written with write_to and read
\* again, is read successfully and equals the feed that was written.
C28_ParsedFixedPoint ==
    (phase = "reparse" /\ result # None) => result = Some(Ok(written[1]))

\* Whether the loop fn skips an element with this name: under feed and
\* entry a name that is neither a core element nor prefixed, under source
\* and person every name the loop does not know.
Skipped(fn, name) ==
    CASE fn \in {"Feed", "Entry"} -> name \notin CoreNames(fn) /\ ~IsPrefixed(name)
      [] fn = "Source" -> name \notin (CoreNames("Feed") \ {N("entry")})
      [] fn = "Person" -> name \notin {N("name"), N("email"), N("uri")}
      [] OTHER -> FALSE

\* The feed, entry, source or person loop is about to read the start tag of
\* an element it skips.
AtSkipped ==
    /\ Running /\ Top.fn \in {"Feed", "Entry", "Source", "Person"}
    /\ Next1.ev.k = "Start" /\ Skipped(Top.fn, Next1.ev.name)

\* C29: when the feed, entry, source or person loop reads the start tag of
\* an element it skips and the element is complete, the step reads up to
\* the element's own end tag and no further, and leaves the objects under
\* construction and the result as they were; the next event the loop reads
\* is the one after the element.
C29_LenientSkip ==
    [][(AtSkipped /\ (doc[reader.pos].k = "Empty" \/ MatchFrom(doc, reader.pos + 1, 0) # 0)) =>
          /\ stack' = stack
          /\ result' = result
          /\ reader'.pend = None /\ reader'.open = reader.open
          /\ reader'.pos = IF doc[reader.pos].k = "Empty" THEN reader.pos + 1
                           ELSE MatchFrom(doc, reader.pos + 1, 0) + 1]_vars

\* <source><foo><foo><foo/></foo><id>b</id></foo><id>a</id></source>
\* has been read: the source has the id "a" and nothing else.
C29_Witness ==
    /\ phase = "parse" /\ Succeeded
    /\ doc = Under("source",
                   El(N("foo"), <<>>,
                      El(N("foo"), <<>>, <<Empty(N("foo"), <<>>)>>)
                      \o El(N("id"), <<>>, <<Text(N("b"))>>))
                   \o El(N("id"), <<>>, <<Text(N("a"))>>))
    /\ result[1].val.entries[1].source = Some([SourceDefault EXCEPT !.id = N("a")])

\* Every node in the children of node is stored under the local part of its
\* own name, and so on below it.
RECURSIVE ChildrenKeyed(_)
ChildrenKeyed(node) ==
    \A k \in DOMAIN node.children :
        \A i \in 1..Len(node.children[k]) :
            /\ Local(node.children[k][i].name) = k
            /\ ChildrenKeyed(node.children[k][i])

\* Every node of an extension map is stored under the prefix and the rest of
\* its own name.
MapKeyed(extensions) ==
    \A p \in DOMAIN extensions :
        \A l \in DOMAIN extensions[p] :
            \A i \in 1..Len(extensions[p][l]) :
                /\ extensions[p][l][i].name = p \o <<":">> \o l
                /\ ChildrenKeyed(extensions[p][l][i])

\* C30: in a feed read_from returned, every node at extensions[p][l] of the
\* feed and of each entry has the name p:l, and every node in the children of
\* a node under key k has a name whose local part is k.
C30_KeysMatchNames ==
    Succeeded =>
        /\ MapKeyed(result[1].val.extensions)
        /\ \A n \in 1..Len(result[1].val.entries) :
              MapKeyed(result[1].val.entries[n].extensions)

\* A feed has been read in which ext:parent holds two lists of children,
\* those named ext:child under "child".
C30_Witness ==
    /\ phase = "parse" /\ Succeeded
    /\ N("ext") \in DOMAIN result[1].val.extensions
    /\ N("parent") \in DOMAIN result[1].val.extensions[N("ext")]
    /\ LET node == result[1].val.extensions[N("ext")][N("parent")][1]
       IN  /\ node.name = <<"ext", ":", "parent">>
           /\ Cardinality(DOMAIN node.children) = 2
           /\ N("child") \in DOMAIN node.children
           /\ node.children[N("child")][1].name = <<"ext", ":", "child">>

=============================================================================
